---- MODULE Spec2Model ----
(***************************************************************************)
(* The drag core of wayfire's move-drag interface                          *)
(* (plugins/common/wayfire/plugins/common/move-drag-interface.hpp):        *)
(* core_drag_t, the scale_around_grab_t transformer it installs on the     *)
(* dragged view and the output_data_t it stores on every output.           *)
(*                                                                         *)
(* Points are integer layout coordinates.  A relative grab is a pair of    *)
(* fractions, each written <<numerator, denominator>>.  Signals are        *)
(* recorded in the order they are emitted by the operation that ran last.  *)
(*                                                                         *)
(* The operations of core_drag_t are modelled without guards, as the code  *)
(* has none.  In Spec they are called the way the move plugin calls them:  *)
(* start_drag when no drag is going on, handle_motion, set_scale and       *)
(* handle_input_released while it holds the grab of a running drag.        *)
(* SpecRelease runs handle_input_released one statement at a time, and    *)
(* SpecUnguarded calls the operations in any state of the core.            *)
(* SpecFrame adds the damage_overlay hook of every output, SpecAdjust      *)
(* applies adjust_view_on_output to a "done" record, SpecGeometry calls    *)
(* the geometry helpers on their own, and SpecPlugin follows one drag      *)
(* session with a wayfire_move instance on every output handling the      *)
(* signals of the core.                                                    *)
(* SpecStart calls start_drag on views of many widths, with the relative  *)
(* grab computed as the code's doubles give it, SpecReentrant lets a      *)
(* "done" callback start the next drag, and SpecHotplug plugs outputs in   *)
(* and out during a drag.  SpecConfig follows the dynamic ini backend of   *)
(* the same sources: its inotify descriptor and handle_config_updated.     *)
(***************************************************************************)
EXTENDS Integers, Sequences, FiniteSets

(* ------------------------------ bounds -------------------------------- *)

\* Layout coordinates used for input positions: x in 0..MaxX, y in 0..MaxY.
MaxX == 2
MaxY == 1
\* Largest snap_off_threshold an initiating plugin passes.
MaxThreshold == 2
\* Largest denominator of a relative fraction given to the geometry helpers.
MaxDen == 3
\* Largest width of a view a drag is started on when start_drag is followed
\* on its own.
MaxWidth == 22
\* Most inotify events waiting for, or read by, one run of the handler.
MaxEvents == 3

(* --------------------------- value domains ---------------------------- *)

NULL == "null"

Views == {"v1", "v2"}

Outputs == {"A", "B"}

Points == [x : 0..MaxX, y : 0..MaxY]

NoPoint == [x |-> -1, y |-> -1]

NoRelative == [x |-> <<-1, 1>>, y |-> <<-1, 1>>]

\* Scale factors used by the plugins (1.0 and a zoomed-out 2.0).
Scales == {1, 2}

\* drag_options_t values handed to start_drag.
DragOptions ==
    { [enable_snap_off |-> FALSE, snap_off_threshold |-> 0, initial_scale |-> 1] }
    \cup
    { [enable_snap_off |-> TRUE, snap_off_threshold |-> t, initial_scale |-> 1] :
        t \in 0..MaxThreshold }

\* The output layout: two outputs side by side; x >= 2 lies on no output.
layout_geometry ==
    [o \in Outputs |->
        IF o = "A" THEN [x |-> 0, y |-> 0, width |-> 1, height |-> MaxY + 1]
                   ELSE [x |-> 1, y |-> 0, width |-> 1, height |-> MaxY + 1]]

\* The geometry of a view without the drag transformer (output-local).
view_geometry == [x |-> 0, y |-> 0, width |-> 2, height |-> 2]

\* view->get_output(): v1 lives on output A, v2 on output B.
view_output == [v \in Views |-> IF v = "v1" THEN "A" ELSE "B"]

origin(g) == [x |-> g.x, y |-> g.y]

PointSub(p, q) == [x |-> p.x - q.x, y |-> p.y - q.y]

BoxMove(g, p) == [x |-> g.x + p.x, y |-> g.y + p.y, width |-> g.width, height |-> g.height]

EmptyBox == [x |-> 0, y |-> 0, width |-> 0, height |-> 0]

\* box + -wf::origin(g): the box in coordinates relative to g's origin.
BoxOffset(box, g) == BoxMove(box, PointSub([x |-> 0, y |-> 0], origin(g)))

(* ------------------------------ state --------------------------------- *)

VARIABLES
    view,               \* core_drag_t::view
    current_output,     \* core_drag_t::current_output
    transformer,        \* core_drag_t::transformer: the view whose stack holds it
    params,             \* core_drag_t::params
    grab_origin,        \* core_drag_t::grab_origin
    view_held_in_place, \* core_drag_t::view_held_in_place
    on_view_unmap,      \* views whose "unmapped" signal on_view_unmap is connected to
    view_visible,       \* per view: set_visible state
    view_transformers,  \* per view: the transformers named move_drag_transformer
    view_mapped,        \* per view: is_mapped()
    output_data,        \* per output: the stored output_data_t (at most one)
    focused_output,     \* the compositor's focused output (core.focus_output)
    cursor,             \* the compositor's cursor name
    crashed,            \* the process dereferenced a null pointer
    emitted,            \* signals emitted by the last operation, in order
    damaged,            \* per output: boxes damaged by the last operation
    session,            \* history of the current drag session
    wm,                 \* per view: output, wm geometry, margin of the
                        \* bounding box around it, tiled_edges, fullscreen
    plugin,             \* per output: the move plugin instance has its grab
    calls,              \* calls into the compositor by the last operation
    round_trip,         \* a call of the geometry helpers on their own
    output_layout,      \* output_layout->get_outputs(): the outputs plugged in
    inotify             \* the ini backend: config_file, config_dir, the
                        \* inotify descriptor and the handler reading it

vars == << view, current_output, transformer, params, grab_origin,
           view_held_in_place, on_view_unmap, view_visible, view_transformers,
           view_mapped, output_data, focused_output, cursor, crashed,
           emitted, damaged, session, wm, plugin, calls, round_trip,
           output_layout, inotify >>

\* What the drag core never writes: the views' window-management state, the
\* move plugin instances, the record of their calls, and the geometry
\* helpers called on their own.
envVars == << wm, plugin, calls, round_trip, output_layout, inotify >>

coreVars == << view, current_output, transformer, params, grab_origin,
               view_held_in_place, on_view_unmap >>

(* ----------------------------- signals -------------------------------- *)

\* drag_focus_output_signal, emitted under the name "focus-output".
drag_focus_output_signal(previous, focus) ==
    [name |-> "focus-output", previous_focus_output |-> previous,
     focus_output |-> focus, focused_output |-> NULL, view |-> NULL,
     relative_grab |-> NoRelative, grab_position |-> NoPoint]

\* snap_off_signal, emitted under the name "snap-off".
snap_off_signal(focus) ==
    [name |-> "snap-off", previous_focus_output |-> NULL,
     focus_output |-> focus, focused_output |-> NULL, view |-> NULL,
     relative_grab |-> NoRelative, grab_position |-> NoPoint]

\* drag_done_signal, emitted under the name "done".
drag_done_signal(focused, v, relative, position) ==
    [name |-> "done", previous_focus_output |-> NULL,
     focus_output |-> NULL, focused_output |-> focused, view |-> v,
     relative_grab |-> relative, grab_position |-> position]

\* wf::get_core().output_layout->get_outputs(): the outputs in list order.
OutputOrder == << "A", "B" >>

\* The ini backend before init: no config file chosen, nothing watched, no
\* event queued, handle_config_updated not running.  files are the paths
\* that exist; trace and batch record what the last run of the handler
\* called and which events it read.
NoBackend ==
    [config_file |-> "", config_dir |-> "", files |-> {}, watches |-> {},
     queue |-> << >>, pc |-> "idle", should_reload |-> FALSE,
     trace |-> << >>, batch |-> << >>]

(* ------------------------- geometry helpers --------------------------- *)

\* No call of the geometry helpers on their own.
NoRoundTrip ==
    [pc |-> "none", size |-> [width |-> 1, height |-> 1], grab |-> NoPoint,
     relative |-> NoRelative, box |-> EmptyBox, result |-> NoRelative]

\* ceil(relative * length) for a fraction <<numerator, denominator>>.
CeilMul(fraction, length) ==
    (fraction[1] * length + fraction[2] - 1) \div fraction[2]

\* floor(log2(n / d)) for positive n and d.
RECURSIVE FloorLog2(_, _)
FloorLog2(n, d) ==
    IF n >= 2 * d THEN FloorLog2(n, 2 * d) + 1
    ELSE IF n < d THEN FloorLog2(2 * n, d) - 1
    ELSE 0

RECURSIVE Pow2(_)
Pow2(e) == IF e = 0 THEN 1 ELSE 2 * Pow2(e - 1)

\* 2^e modulo w.
RECURSIVE Pow2Mod(_, _)
Pow2Mod(e, w) ==
    IF e < 8 THEN Pow2(e) % w ELSE (256 * Pow2Mod(e - 8, w)) % w

\* A relative grab is a double: <<k, w>> stands for the double nearest to
\* k / w, as 1.0 * k / w yields it.  With 53 significant bits that double is
\* m / 2^e for e = 52 - floor(log2(k / w)) and m the whole number nearest to
\* k * 2^e / w.  When m was rounded down, the double is
\* DoubleShortfall / (w * 2^e) below k / w; otherwise the result is 0.
DoubleShortfall(fraction) ==
    LET k == fraction[1]
        w == fraction[2]
        r == (k * Pow2Mod(52 - FloorLog2(k, w), w)) % w
    IN  IF 2 * r > w THEN 0 ELSE r

\* (int)std::floor(relative * length) for a relative <<k, w>>, in double
\* arithmetic.  Where k * length / w is no whole number the rounding of the
\* two operations cannot reach the next whole number.  Where it is the whole
\* number n, the product of the doubles lies below n by
\* DoubleShortfall * length / (w * 2^e), and is rounded to n unless that is
\* more than half the distance from n to the double below it: then the
\* product is a double below n and the floor is n - 1.  A fraction whose
\* denominator in lowest terms is a power of two is a double as it stands.
FloorMul(fraction, length) ==
    LET k == fraction[1]
        w == fraction[2]
        n == (k * length) \div w
    IN  IF k <= 0 \/ length <= 0 \/ (k * length) % w # 0
        THEN n
        ELSE IF (k * 1024) % w = 0 \/ DoubleShortfall(fraction) = 0 THEN n
        ELSE LET a == FloorLog2(n, 1)
                 ex == a - 1 - FloorLog2(k, w) - (IF n = Pow2(a) THEN 1 ELSE 0)
                 short == DoubleShortfall(fraction) * length
             IN  IF ex >= 0
                 THEN (IF short > w * Pow2(ex) THEN n - 1 ELSE n)
                 ELSE (IF short * Pow2(-ex) > w THEN n - 1 ELSE n)

\* Variant of find_geometry_around: the offset is rounded up.
find_geometry_around_ceil(size, grab, relative) ==
    [x |-> grab.x - CeilMul(relative.x, size.width),
     y |-> grab.y - CeilMul(relative.y, size.height),
     width |-> size.width,
     height |-> size.height]

find_geometry_around(size, grab, relative) ==
    [x |-> grab.x - FloorMul(relative.x, size.width),
     y |-> grab.y - FloorMul(relative.y, size.height),
     width |-> size.width,
     height |-> size.height]

find_relative_grab(box, grab) ==
    [x |-> <<grab.x - box.x, box.width>>,
     y |-> <<grab.y - box.y, box.height>>]

(* --------------------- scale_around_grab_t ---------------------------- *)

\* A freshly constructed transformer as start_drag sets it up.
new_scale_around_grab(relative, position, scale) ==
    [relative_grab |-> relative,
     grab_position |-> position,
     scale_factor |-> [value |-> scale, end |-> scale]]

\* scale_around_grab_t::get_bounding_box
get_bounding_box(tr, box) ==
    find_geometry_around(
        [width |-> box.width \div tr.scale_factor.value,
         height |-> box.height \div tr.scale_factor.value],
        tr.grab_position, tr.relative_grab)

\* The bounding box of a view without the drag transformer: its wm geometry
\* and the margin (shadows, decoration) around it.
untransformed_bbox(w) ==
    [x |-> w.geometry.x - w.margin, y |-> w.geometry.y - w.margin,
     width |-> w.geometry.width + 2 * w.margin,
     height |-> w.geometry.height + 2 * w.margin]

\* view->get_bounding_box(): through the drag transformer when it is installed.
view_bounding_box(v) ==
    IF view_transformers[v] # << >>
    THEN get_bounding_box(view_transformers[v][Len(view_transformers[v])],
                          untransformed_bbox(wm[v]))
    ELSE untransformed_bbox(wm[v])

\* The observer pointer core_drag_t::transformer points at a live transformer.
transformer_alive ==
    /\ transformer # NULL
    /\ view_transformers[transformer] # << >>

\* *transformer
Tr == view_transformers[transformer][Len(view_transformers[transformer])]

\* The transform stacks after *transformer has been replaced by tr.
with_transformer(tr) ==
    [view_transformers EXCEPT
        ![transformer] = [@ EXCEPT ![Len(@)] = tr]]

(* -------------------------- output_data_t ----------------------------- *)

\* The effect hooks of the drag registered on output o's render manager:
\* output_data_t adds both when constructed and removes both when destroyed.
drag_effects(o) ==
    IF output_data[o] # << >> THEN {"damage_overlay", "render_overlay"} ELSE {}

\* output_data_t::output_data_t
new_output_data(v) == [view |-> v, last_bbox |-> EmptyBox]

\* output_data_t::apply_damage: the box it computes for output o.
damage_bbox(o) ==
    BoxMove(view_bounding_box(output_data[o][1].view),
            PointSub([x |-> 0, y |-> 0], origin(layout_geometry[o])))

\* Variant of apply_damage: the box of the previous call is not damaged.
apply_damage_current_only(o) == << damage_bbox(o), damage_bbox(o) >>

\* output_data_t::apply_damage: the boxes it damages on output o, in order.
apply_damage(o) == << damage_bbox(o), output_data[o][1].last_bbox >>

(* ------------------------- output layout ------------------------------ *)

Contains(g, p) ==
    /\ g.x <= p.x /\ p.x < g.x + g.width
    /\ g.y <= p.y /\ p.y < g.y + g.height

\* output_layout->get_output_coords_at: the output under the point, if any.
get_output_coords_at(p) ==
    IF \E o \in output_layout : Contains(layout_geometry[o], p)
    THEN CHOOSE o \in output_layout : Contains(layout_geometry[o], p)
    ELSE NULL

(* ---------------------------- core_drag_t ----------------------------- *)

\* A drag_done_signal nothing has been stored in.
NoData == drag_done_signal(NULL, NULL, NoRelative, NoPoint)

\* The history kept of a drag session (not program state): what start_drag
\* was given, the input position last reported, the signals emitted, and
\* whether handle_motion has run (1) and has just run twice with one point (2).
\* While handle_input_released runs statement by statement, pc is the index
\* of its next statement and data its local drag_done_signal.
NoSession ==
    [active |-> FALSE, start_position |-> NoPoint, relative_grab |-> NoRelative,
     last_input |-> NoPoint, snap_offs |-> 0, dones |-> 0,
     last_focus |-> NULL, on_start_output |-> FALSE, motions |-> 0,
     pc |-> 0, data |-> NoData]

Count(signals, name) ==
    Cardinality({i \in 1..Len(signals) : signals[i].name = name})

Select(signals, name) == SelectSeq(signals, LAMBDA sig : sig.name = name)

\* A null or dangling pointer is dereferenced: the process dies where it is.
Crash ==
    /\ crashed' = TRUE
    /\ emitted' = << >>
    /\ damaged' = [o \in Outputs |-> << >>]
    /\ UNCHANGED << coreVars, view_visible, view_transformers, output_data,
                    focused_output, cursor, session >>

\* core_drag_t::start_drag(view, grab_position, relative, options)
start_drag(v, grab_position, relative, options) ==
    /\ view' = v
    /\ params' = options
    /\ transformer' = v
    /\ view_transformers' =
           [view_transformers EXCEPT
               ![v] = Append(@, new_scale_around_grab(relative, grab_position,
                                                       options.initial_scale))]
    /\ view_visible' = [view_visible EXCEPT ![v] = FALSE]
    /\ output_data' = [o \in Outputs |->
                           IF o \in output_layout
                           THEN << new_output_data(v) >>
                           ELSE output_data[o]]
    /\ cursor' = "grabbing"
    /\ on_view_unmap' = on_view_unmap \cup {v}
    /\ IF options.enable_snap_off
       THEN /\ grab_origin' = grab_position
            /\ view_held_in_place' = TRUE
       ELSE UNCHANGED << grab_origin, view_held_in_place >>
    /\ emitted' = << >>
    /\ damaged' = [o \in Outputs |-> << >>]
    /\ UNCHANGED << current_output, focused_output, crashed >>

\* core_drag_t::start_drag(view, grab_position, options): the relative grab
\* is derived from the view's bounding box in layout coordinates.
start_drag_derived(v, grab_position, options) ==
    start_drag(v, grab_position,
               find_relative_grab(
                   BoxMove(view_bounding_box(v),
                           origin(layout_geometry[wm[v].output])),
                   grab_position),
               options)

\* handle_motion: the squared distance of `to` from the grab origin (an int;
\* the coordinates of the model stay far inside its range).
dst_sq(to) ==
    (to.x - grab_origin.x) * (to.x - grab_origin.x)
        + (to.y - grab_origin.y) * (to.y - grab_origin.y)

\* handle_motion: the squared threshold (an int).
thresh_sq == params.snap_off_threshold * params.snap_off_threshold

\* Variant of snap_off_reached: the threshold must be exceeded, not reached.
snap_off_reached_strict(to) == view_held_in_place /\ dst_sq(to) > thresh_sq

\* handle_motion: this motion ends the hold.
snap_off_reached(to) == view_held_in_place /\ dst_sq(to) >= thresh_sq

\* handle_motion: the "snap-off" signal of this motion, if any.
snap_off_emitted(to) ==
    IF snap_off_reached(to) THEN << snap_off_signal(current_output) >> ELSE << >>

\* Variant of held_after_motion: the hold comes back near the grab origin.
held_after_motion_rehold(to) ==
    \/ view_held_in_place /\ ~snap_off_reached(to)
    \/ params.enable_snap_off /\ dst_sq(to) < thresh_sq

\* handle_motion: view_held_in_place once the snap-off test has run.
held_after_motion(to) == view_held_in_place /\ ~snap_off_reached(to)

\* Variant of grab_position_after_motion: the hold is ignored.
grab_position_after_motion_always(to) == to

\* handle_motion: transformer->grab_position when it returns.
grab_position_after_motion(to) ==
    IF ~held_after_motion(to) THEN to ELSE Tr.grab_position

\* Variant of output_changed: the comparison with current_output is missing.
output_changed_always(output) == TRUE

\* update_current_output: the output differs from the focused one.
output_changed(output) == output # current_output

\* Variant of focus_output_emitted: the previous output is read after the
\* assignment to current_output.
focus_output_emitted_late(output) ==
    IF output_changed(output)
    THEN << drag_focus_output_signal(output, output) >>
    ELSE << >>

\* update_current_output: the "focus-output" signal, if any.
focus_output_emitted(output) ==
    IF output_changed(output)
    THEN << drag_focus_output_signal(current_output, output) >>
    ELSE << >>

\* Variant of motion_emitted: update_current_output runs before the
\* snap-off test.
motion_emitted_focus_first(to) ==
    focus_output_emitted(get_output_coords_at(to)) \o snap_off_emitted(to)

\* handle_motion: the signals of this motion in the order they are emitted,
\* "snap-off" in the snap-off test and "focus-output" in
\* update_current_output, the last statement.
motion_emitted(to) ==
    snap_off_emitted(to) \o focus_output_emitted(get_output_coords_at(to))

\* Variant of update_current_output: a view held in place keeps its output.
update_current_output_unless_held(grab) ==
    LET output == get_output_coords_at(grab)
    IN  IF output_changed(output) /\ ~view_held_in_place
        THEN /\ current_output' = output
             /\ focused_output' = output
        ELSE UNCHANGED << current_output, focused_output >>

\* core_drag_t::update_current_output(grab), without its signal.
update_current_output(grab) ==
    LET output == get_output_coords_at(grab)
    IN  IF output_changed(output)
        THEN /\ current_output' = output
             /\ focused_output' = output
        ELSE UNCHANGED << current_output, focused_output >>

\* handle_motion(to) with a transformer pointer left dangling by an earlier
\* release, in a run where the write through it lands in freed memory and
\* does no harm: the snap-off test and update_current_output run as usual.
handle_motion_dangling(to) ==
    /\ transformer # NULL
    /\ view_held_in_place' = held_after_motion(to)
    /\ update_current_output(to)
    /\ emitted' = motion_emitted(to)
    /\ damaged' = [o \in Outputs |-> << >>]
    /\ UNCHANGED << view, transformer, params, grab_origin, on_view_unmap,
                    view_visible, view_transformers, output_data, cursor,
                    crashed >>

\* core_drag_t::handle_motion(to).  Without a live transformer the write
\* through the pointer is undefined: the process dies, or goes on.
handle_motion(to) ==
    IF view = NULL \/ ~transformer_alive
    THEN Crash \/ handle_motion_dangling(to)
    ELSE /\ view_held_in_place' = held_after_motion(to)
         /\ view_transformers' =
                with_transformer([Tr EXCEPT
                    !.grab_position = grab_position_after_motion(to)])
         /\ update_current_output(to)
         /\ emitted' = motion_emitted(to)
         /\ damaged' = [o \in Outputs |-> << >>]
         /\ UNCHANGED << view, transformer, params, grab_origin, on_view_unmap,
                         view_visible, output_data, cursor, crashed >>

\* Variant of drag_done_data: the data is stored after the state is reset.
drag_done_data_after_reset ==
    drag_done_signal(NULL, NULL, Tr.relative_grab, Tr.grab_position)

\* handle_input_released: the data stored for the "done" signal.
drag_done_data ==
    drag_done_signal(current_output, view, Tr.relative_grab, Tr.grab_position)

\* Variant of released_current_output: the reset of current_output is missing.
released_current_output_kept == current_output

\* handle_input_released: current_output after "Reset our state".
released_current_output == NULL

\* Variant of released_on_view_unmap: the disconnect is missing.
released_on_view_unmap_kept == on_view_unmap

\* handle_input_released: the connections on_view_unmap keeps at the end.
released_on_view_unmap == {}

\* Variant of released_output_data: only the focused output is detached.
released_output_data_current_only ==
    [o \in Outputs |-> IF o = current_output THEN << >> ELSE output_data[o]]

\* handle_input_released: the output_data_t of the outputs after its loop.
released_output_data ==
    [o \in Outputs |-> IF o \in output_layout THEN << >> ELSE output_data[o]]

\* Variant of released_view_transformers: pop_transformer is missing.
released_view_transformers_kept == view_transformers

\* handle_input_released: the transform stacks once the view's
\* move_drag_transformer has been popped.
released_view_transformers == [view_transformers EXCEPT ![view] = << >>]

\* Variant of released_view_held_in_place: the reset of the flag is missing.
released_view_held_in_place_kept == view_held_in_place

\* handle_input_released: view_held_in_place = false under "Reset our state".
released_view_held_in_place == FALSE

\* core_drag_t::handle_input_released()
handle_input_released ==
    IF view = NULL \/ ~transformer_alive
       \/ \E o \in output_layout : output_data[o] = << >>
    THEN Crash
    ELSE /\ damaged' = [o \in Outputs |->
                           IF o \in output_layout THEN apply_damage(o) ELSE << >>]
         /\ output_data' = released_output_data
         /\ view_visible' = [view_visible EXCEPT ![view] = TRUE]
         /\ view_transformers' = released_view_transformers
         /\ view' = NULL
         /\ current_output' = released_current_output
         /\ view_held_in_place' = released_view_held_in_place
         /\ emitted' = << drag_done_data >>
         /\ on_view_unmap' = released_on_view_unmap
         /\ UNCHANGED << transformer, params, grab_origin, focused_output,
                         cursor, crashed >>

\* Variant of set_scale: the scale jumps, as animate(new_scale, new_scale).
set_scale_jump(new_scale) ==
    IF ~transformer_alive
    THEN Crash
    ELSE /\ view_transformers' =
                with_transformer([Tr EXCEPT !.scale_factor =
                                    [value |-> new_scale, end |-> new_scale]])
         /\ emitted' = << >>
         /\ damaged' = [o \in Outputs |-> << >>]
         /\ UNCHANGED << coreVars, view_visible, output_data, focused_output,
                         cursor, crashed >>

\* core_drag_t::set_scale(new_scale)
set_scale(new_scale) ==
    IF ~transformer_alive
    THEN Crash
    ELSE /\ view_transformers' =
                with_transformer([Tr EXCEPT !.scale_factor.end = new_scale])
         /\ emitted' = << >>
         /\ damaged' = [o \in Outputs |-> << >>]
         /\ UNCHANGED << coreVars, view_visible, output_data, focused_output,
                         cursor, crashed >>

\* Variant of on_view_unmap_emitted: nothing listens to "unmapped".
on_view_unmap_ignored(v) ==
    /\ emitted' = << >>
    /\ damaged' = [o \in Outputs |-> << >>]
    /\ UNCHANGED << coreVars, view_visible, view_transformers, output_data,
                    focused_output, cursor, crashed >>

\* core_drag_t::on_view_unmap, run when view v emits "unmapped".
on_view_unmap_emitted(v) ==
    IF v \in on_view_unmap
    THEN handle_input_released
    ELSE /\ emitted' = << >>
         /\ damaged' = [o \in Outputs |-> << >>]
         /\ UNCHANGED << coreVars, view_visible, view_transformers, output_data,
                         focused_output, cursor, crashed >>

(* ----------------------- adjust_view_on_output ------------------------ *)

\* A call into the compositor, as recorded in `calls`.
Call(op, v, output, point, flag) ==
    [op |-> op, view |-> v, output |-> output, point |-> point, flag |-> flag]

\* Division of ints as C++ does it: the quotient is truncated towards zero.
TruncDiv(a, b) == IF a >= 0 THEN a \div b ELSE -((-a) \div b)

\* adjust_view_on_output: the view is moved to another output first.
adjust_migrates(ev, w) == w.output # ev.focused_output

\* adjust_view_on_output: grab, the grab position local to the focused output.
adjust_grab(ev) ==
    PointSub(ev.grab_position, origin(layout_geometry[ev.focused_output]))

\* Variant of adjust_target: the offset of the wm geometry is dropped.
adjust_target_bbox_origin(ev, w) ==
    origin(find_geometry_around(untransformed_bbox(w), adjust_grab(ev),
                                ev.relative_grab))

\* adjust_view_on_output: target, where the view is moved to.
adjust_target(ev, w) ==
    LET bbox == untransformed_bbox(w)
        wm_offset == PointSub(origin(w.geometry), origin(bbox))
        placed == find_geometry_around(bbox, adjust_grab(ev), ev.relative_grab)
    IN  [x |-> placed.x + wm_offset.x, y |-> placed.y + wm_offset.y]

\* adjust_view_on_output: target_ws, with the current workspace at (0, 0).
adjust_target_ws(ev) ==
    [x |-> TruncDiv(adjust_grab(ev).x, layout_geometry[ev.focused_output].width),
     y |-> TruncDiv(adjust_grab(ev).y, layout_geometry[ev.focused_output].height)]

\* Variant of adjust_ignores: the test of is_mapped() is missing.
adjust_ignores_nothing(ev) == FALSE

\* adjust_view_on_output: "Unmapped views are ignored."
adjust_ignores(ev) == ~view_mapped[ev.view]

\* adjust_view_on_output(ev): the calls it makes, in order.
adjust_calls(ev, w) ==
    IF adjust_ignores(ev)
    THEN << >>
    ELSE (IF adjust_migrates(ev, w)
          THEN << Call("move_view_to_output", ev.view, ev.focused_output,
                       NoPoint, FALSE) >>
          ELSE << >>)
         \o << Call("move", ev.view, NULL, adjust_target(ev, w), FALSE) >>
         \o (IF w.fullscreen
             THEN << Call("fullscreen_request", ev.view, ev.focused_output,
                          adjust_target_ws(ev), TRUE) >>
             ELSE IF w.tiled_edges
                  THEN << Call("tile_request", ev.view, NULL,
                               adjust_target_ws(ev), w.tiled_edges) >>
                  ELSE << >>)

\* The state of the view after adjust_view_on_output(ev): move_view_to_output
\* sets its output and move() the origin of its wm geometry; the requests
\* ask for the tiled or fullscreen state the view already has.
adjust_view_on_output(ev, w) ==
    IF adjust_ignores(ev)
    THEN w
    ELSE [w EXCEPT !.output = ev.focused_output,
                   !.geometry.x = adjust_target(ev, w).x,
                   !.geometry.y = adjust_target(ev, w).y]

(* ------------------------- the specification -------------------------- *)

\* A default-constructed core_drag_t on a compositor with all views mapped.
Init ==
    /\ view = NULL
    /\ current_output = NULL
    /\ transformer = NULL
    /\ params = [enable_snap_off |-> FALSE, snap_off_threshold |-> 0,
                 initial_scale |-> 1]
    /\ grab_origin = [x |-> 0, y |-> 0]
    /\ view_held_in_place = FALSE
    /\ on_view_unmap = {}
    /\ view_visible = [v \in Views |-> TRUE]
    /\ view_transformers = [v \in Views |-> << >>]
    /\ view_mapped = [v \in Views |-> TRUE]
    /\ output_data = [o \in Outputs |-> << >>]
    /\ focused_output = "A"
    /\ cursor = "default"
    /\ crashed = FALSE
    /\ emitted = << >>
    /\ damaged = [o \in Outputs |-> << >>]
    /\ session = NoSession
    /\ wm = [v \in Views |->
                [output |-> view_output[v], geometry |-> view_geometry,
                 margin |-> 0, tiled_edges |-> FALSE, fullscreen |-> FALSE]]
    /\ plugin = [o \in Outputs |-> [active |-> FALSE, inhibited |-> FALSE]]
    /\ calls = << >>
    /\ round_trip = NoRoundTrip
    /\ output_layout = Outputs
    /\ inotify = NoBackend

\* The session history after a handle_motion(to) that emitted `signals`.
session_after_motion(to, signals) ==
    [session EXCEPT
        !.last_input = to,
        !.snap_offs = @ + Count(signals, "snap-off"),
        !.last_focus =
            IF Count(signals, "focus-output") > 0
            THEN Select(signals, "focus-output")[Count(signals, "focus-output")].focus_output
            ELSE @,
        !.on_start_output =
            @ /\ get_output_coords_at(to) = get_output_coords_at(session.start_position),
        !.motions = IF @ >= 1 /\ session.last_input = to THEN 2 ELSE 1]

\* The session history after a release that emitted `signals`.
session_after_release(signals) ==
    [NoSession EXCEPT !.dones = session.dones + Count(signals, "done")]

\* A plugin that holds no drag starts one on a mapped view, with the input
\* on the view (wayfire_move::initiate).
StartDrag ==
    /\ ~crashed
    /\ UNCHANGED envVars
    /\ view = NULL
    /\ \E v \in Views, g \in Points, options \in DragOptions :
        /\ view_mapped[v]
        /\ Contains(BoxMove(view_bounding_box(v),
                            origin(layout_geometry[wm[v].output])), g)
        /\ start_drag_derived(v, g, options)
        /\ session' = [active |-> TRUE, start_position |-> g,
                       relative_grab |->
                           find_relative_grab(
                               BoxMove(view_bounding_box(v),
                                       origin(layout_geometry[wm[v].output])), g),
                       last_input |-> g, snap_offs |-> 0, dones |-> 0,
                       last_focus |-> NULL, on_start_output |-> TRUE,
                       motions |-> 0, pc |-> 0, data |-> NoData]
        /\ UNCHANGED view_mapped

\* The plugin holding the grab forwards pointer or touch motion
\* (wayfire_move::handle_input_motion).
HandleMotionTo(to) ==
    /\ ~crashed
    /\ UNCHANGED envVars
    /\ view # NULL
    /\ handle_motion(to)
    /\ session' = session_after_motion(to, emitted')
    /\ UNCHANGED view_mapped

HandleMotion == \E to \in Points : HandleMotionTo(to)

\* The plugin holding the grab forwards the release
\* (wayfire_move::input_pressed).
HandleInputReleased ==
    /\ ~crashed
    /\ UNCHANGED envVars
    /\ view # NULL
    /\ handle_input_released
    /\ session' = IF crashed' THEN session
                  ELSE session_after_release(emitted')
    /\ UNCHANGED view_mapped

\* A plugin re-targets the scale while a drag is going on
\* (wayfire_move::on_drag_output_focus).
SetScale ==
    /\ ~crashed
    /\ UNCHANGED envVars
    /\ view # NULL
    /\ \E new_scale \in Scales :
        /\ set_scale(new_scale)
        /\ UNCHANGED << view_mapped, session >>

\* The scale animation of the installed transformer runs to its end.
AnimationTick ==
    /\ ~crashed
    /\ UNCHANGED envVars
    /\ transformer_alive
    /\ Tr.scale_factor.value # Tr.scale_factor.end
    /\ view_transformers' =
           with_transformer([Tr EXCEPT !.scale_factor.value = Tr.scale_factor.end])
    /\ emitted' = << >>
    /\ damaged' = [o \in Outputs |-> << >>]
    /\ UNCHANGED << coreVars, view_visible, view_mapped, output_data,
                    focused_output, cursor, crashed, session >>

\* A mapped view is unmapped and emits "unmapped".
ViewUnmappedOf(v) ==
    /\ ~crashed
    /\ UNCHANGED envVars
    /\ view_mapped[v]
    /\ view_mapped' = [view_mapped EXCEPT ![v] = FALSE]
    /\ on_view_unmap_emitted(v)
    /\ session' = IF Count(emitted', "done") > 0
                  THEN session_after_release(emitted')
                  ELSE session

ViewUnmapped == \E v \in Views : ViewUnmappedOf(v)

\* An unmapped view that is not being dragged is mapped again.
ViewMapped ==
    /\ ~crashed
    /\ UNCHANGED envVars
    /\ \E v \in Views :
        /\ ~view_mapped[v]
        /\ v # view
        /\ view_mapped' = [view_mapped EXCEPT ![v] = TRUE]
        /\ emitted' = << >>
        /\ damaged' = [o \in Outputs |-> << >>]
        /\ UNCHANGED << coreVars, view_visible, view_transformers, output_data,
                        focused_output, cursor, crashed, session >>

Next ==
    \/ StartDrag
    \/ HandleMotion
    \/ HandleInputReleased
    \/ SetScale
    \/ AnimationTick
    \/ ViewUnmapped
    \/ ViewMapped

Spec == Init /\ [][Next]_vars

(* ------------ handle_input_released, statement by statement ----------- *)

\* Variant of release_statements: the view is restored before the loop.
release_statements_restore_first ==
    << [op |-> "restore_view", output |-> NULL] >>
    \o [i \in 1..(2 * Len(OutputOrder)) |->
           IF i % 2 = 1
           THEN [op |-> "apply_damage", output |-> OutputOrder[(i + 1) \div 2]]
           ELSE [op |-> "erase_data", output |-> OutputOrder[i \div 2]]]
    \o << [op |-> "reset", output |-> NULL],
          [op |-> "emit_done", output |-> NULL] >>

\* The statements of handle_input_released after "Store data", in order:
\* apply_damage and erase_data for each output, the view made visible and
\* its transformer popped, the state reset, "done" emitted.
release_statements ==
    [i \in 1..(2 * Len(OutputOrder)) |->
        IF i % 2 = 1
        THEN [op |-> "apply_damage", output |-> OutputOrder[(i + 1) \div 2]]
        ELSE [op |-> "erase_data", output |-> OutputOrder[i \div 2]]]
    \o << [op |-> "restore_view", output |-> NULL],
          [op |-> "reset", output |-> NULL],
          [op |-> "emit_done", output |-> NULL] >>

\* The statement handle_input_released is about to run.
statement == release_statements[session.pc]

\* handle_input_released is entered: the data of "done" is stored.
ReleaseStoreData ==
    /\ ~crashed
    /\ UNCHANGED envVars
    /\ view # NULL
    /\ session.pc = 0
    /\ session' = [session EXCEPT !.pc = 1, !.data = drag_done_data]
    /\ emitted' = << >>
    /\ damaged' = [o \in Outputs |-> << >>]
    /\ UNCHANGED << coreVars, view_visible, view_transformers, view_mapped,
                    output_data, focused_output, cursor, crashed >>

\* output->get_data<output_data_t>()->apply_damage()
ReleaseApplyDamage ==
    /\ ~crashed
    /\ UNCHANGED envVars
    /\ session.pc # 0
    /\ statement.op = "apply_damage"
    /\ IF output_data[statement.output] = << >>
       THEN Crash
       ELSE /\ damaged' = [damaged EXCEPT
                              ![statement.output] = apply_damage(statement.output)]
            /\ session' = [session EXCEPT !.pc = @ + 1]
            /\ emitted' = << >>
            /\ UNCHANGED << coreVars, view_visible, view_transformers,
                            output_data, focused_output, cursor, crashed >>
    /\ UNCHANGED view_mapped

\* output->erase_data<output_data_t>(): ~output_data_t removes both hooks.
ReleaseEraseData ==
    /\ ~crashed
    /\ UNCHANGED envVars
    /\ session.pc # 0
    /\ statement.op = "erase_data"
    /\ output_data' = [output_data EXCEPT ![statement.output] = << >>]
    /\ session' = [session EXCEPT !.pc = @ + 1]
    /\ UNCHANGED << coreVars, view_visible, view_transformers, view_mapped,
                    focused_output, cursor, crashed, emitted, damaged >>

\* view->set_visible(true); view->pop_transformer(move_drag_transformer)
ReleaseRestoreView ==
    /\ ~crashed
    /\ UNCHANGED envVars
    /\ session.pc # 0
    /\ statement.op = "restore_view"
    /\ view_visible' = [view_visible EXCEPT ![view] = TRUE]
    /\ view_transformers' = [view_transformers EXCEPT ![view] = << >>]
    /\ session' = [session EXCEPT !.pc = @ + 1]
    /\ UNCHANGED << coreVars, view_mapped, output_data, focused_output, cursor,
                    crashed, emitted, damaged >>

\* "Reset our state"
ReleaseReset ==
    /\ ~crashed
    /\ UNCHANGED envVars
    /\ session.pc # 0
    /\ statement.op = "reset"
    /\ view' = NULL
    /\ current_output' = released_current_output
    /\ view_held_in_place' = FALSE
    /\ session' = [session EXCEPT !.pc = @ + 1]
    /\ UNCHANGED << transformer, params, grab_origin, on_view_unmap,
                    view_visible, view_transformers, view_mapped, output_data,
                    focused_output, cursor, crashed, emitted, damaged >>

\* emit_signal("done", &data); on_view_unmap.disconnect()
ReleaseEmitDone ==
    /\ ~crashed
    /\ UNCHANGED envVars
    /\ session.pc # 0
    /\ statement.op = "emit_done"
    /\ emitted' = << session.data >>
    /\ on_view_unmap' = released_on_view_unmap
    /\ session' = session_after_release(emitted')
    /\ UNCHANGED << view, current_output, transformer, params, grab_origin,
                    view_held_in_place, view_visible, view_transformers,
                    view_mapped, output_data, focused_output, cursor, crashed,
                    damaged >>

\* The operations of Spec, none of them entered while a release is running
\* (all run on the compositor's one event thread).
NextRelease ==
    \/ session.pc = 0 /\ StartDrag
    \/ session.pc = 0 /\ HandleMotion
    \/ ReleaseStoreData
    \/ ReleaseApplyDamage
    \/ ReleaseEraseData
    \/ ReleaseRestoreView
    \/ ReleaseReset
    \/ ReleaseEmitDone

SpecRelease == Init /\ [][NextRelease]_vars

(* ------------- start_drag from inside a "done" callback --------------- *)

\* session.pc while the callbacks of "done" run inside handle_input_released:
\* on_view_unmap.disconnect() is the statement still to come.
InDoneCallbacks == Len(release_statements) + 1

\* on_view_unmap.disconnect(): the connection is taken off every view it
\* was connected to.
disconnected_on_view_unmap == {}

\* handle_input_released() up to emit_signal("done", &data), whose callbacks
\* now run.
ReleaseEmitting ==
    /\ ~crashed
    /\ UNCHANGED envVars
    /\ view # NULL
    /\ session.pc = 0
    /\ IF ~transformer_alive \/ \E o \in output_layout : output_data[o] = << >>
       THEN /\ Crash
            /\ UNCHANGED view_mapped
       ELSE /\ damaged' = [o \in Outputs |->
                           IF o \in output_layout THEN apply_damage(o) ELSE << >>]
            /\ output_data' = released_output_data
            /\ view_visible' = [view_visible EXCEPT ![view] = TRUE]
            /\ view_transformers' = released_view_transformers
            /\ view' = NULL
            /\ current_output' = released_current_output
            /\ view_held_in_place' = released_view_held_in_place
            /\ emitted' = << drag_done_data >>
            /\ session' = [session_after_release(emitted') EXCEPT
                               !.pc = InDoneCallbacks, !.data = drag_done_data]
            /\ UNCHANGED << transformer, params, grab_origin, on_view_unmap,
                            focused_output, cursor, crashed, view_mapped >>

\* A callback of "done" starts the next drag before it returns.
DoneCallbackStartDrag ==
    /\ ~crashed
    /\ UNCHANGED envVars
    /\ session.pc = InDoneCallbacks
    /\ view = NULL
    /\ \E v \in Views, g \in Points, options \in DragOptions :
        /\ view_mapped[v]
        /\ Contains(BoxMove(view_bounding_box(v),
                            origin(layout_geometry[wm[v].output])), g)
        /\ start_drag_derived(v, g, options)
        /\ session' = [active |-> TRUE, start_position |-> g,
                       relative_grab |->
                           find_relative_grab(
                               BoxMove(view_bounding_box(v),
                                       origin(layout_geometry[wm[v].output])), g),
                       last_input |-> g, snap_offs |-> 0, dones |-> 0,
                       last_focus |-> NULL, on_start_output |-> TRUE,
                       motions |-> 0, pc |-> InDoneCallbacks,
                       data |-> session.data]
        /\ UNCHANGED view_mapped

\* The callbacks of "done" have returned: on_view_unmap.disconnect(), and
\* handle_input_released returns.
ReleaseDisconnect ==
    /\ ~crashed
    /\ UNCHANGED envVars
    /\ session.pc = InDoneCallbacks
    /\ on_view_unmap' = disconnected_on_view_unmap
    /\ session' = [session EXCEPT !.pc = 0, !.data = NoData]
    /\ emitted' = << >>
    /\ damaged' = [o \in Outputs |-> << >>]
    /\ UNCHANGED << view, current_output, transformer, params, grab_origin,
                    view_held_in_place, view_visible, view_transformers,
                    view_mapped, output_data, focused_output, cursor, crashed >>

\* Drags whose "done" callbacks may start the next drag; an unmapped view
\* releases its drag at once if the core is connected to it.
NextReentrant ==
    \/ session.pc = 0 /\ StartDrag
    \/ session.pc = 0 /\ HandleMotion
    \/ session.pc = 0 /\ ViewUnmapped
    \/ session.pc = 0 /\ ViewMapped
    \/ ReleaseEmitting
    \/ DoneCallbackStartDrag
    \/ ReleaseDisconnect

SpecReentrant == Init /\ [][NextReentrant]_vars

(* ---------------------- frames during a drag -------------------------- *)

\* output_data_t::damage_overlay, the pre-render effect hook of output o,
\* runs for a frame of that output: apply_damage().
DamageOverlayOf(o) ==
    /\ ~crashed
    /\ UNCHANGED envVars
    /\ output_data[o] # << >>
    /\ damaged' = [p \in Outputs |-> IF p = o THEN apply_damage(o) ELSE << >>]
    /\ output_data' = [output_data EXCEPT ![o][1].last_bbox = damage_bbox(o)]
    /\ emitted' = << >>
    /\ UNCHANGED << coreVars, view_visible, view_transformers, view_mapped,
                    focused_output, cursor, crashed, session >>

DamageOverlay == \E o \in Outputs : DamageOverlayOf(o)

\* Input positions of the drags that frames are drawn for: the top row.
FramePoints == {p \in Points : p.y = 0}

\* The operations of Spec on a compositor whose outputs draw frames.
NextFrame ==
    \/ StartDrag /\ session'.start_position \in FramePoints
    \/ \E to \in FramePoints : HandleMotionTo(to)
    \/ DamageOverlay
    \/ HandleInputReleased

SpecFrame == Init /\ [][NextFrame]_vars

(* ------------------- outputs plugged in and out ----------------------- *)

\* A default-constructed core_drag_t on a compositor with some of the
\* outputs plugged in and every view on one of them.
InitHotplug ==
    /\ view = NULL
    /\ current_output = NULL
    /\ transformer = NULL
    /\ params = [enable_snap_off |-> FALSE, snap_off_threshold |-> 0,
                 initial_scale |-> 1]
    /\ grab_origin = [x |-> 0, y |-> 0]
    /\ view_held_in_place = FALSE
    /\ on_view_unmap = {}
    /\ view_visible = [v \in Views |-> TRUE]
    /\ view_transformers = [v \in Views |-> << >>]
    /\ view_mapped = [v \in Views |-> TRUE]
    /\ output_data = [o \in Outputs |-> << >>]
    /\ cursor = "default"
    /\ crashed = FALSE
    /\ emitted = << >>
    /\ damaged = [o \in Outputs |-> << >>]
    /\ session = NoSession
    /\ plugin = [o \in Outputs |-> [active |-> FALSE, inhibited |-> FALSE]]
    /\ calls = << >>
    /\ round_trip = NoRoundTrip
    /\ inotify = NoBackend
    /\ \E o \in Outputs, others \in SUBSET Outputs :
        /\ output_layout = {o} \cup others
        /\ focused_output = o
        /\ wm = [v \in Views |->
                    [output |-> IF view_output[v] \in output_layout
                                THEN view_output[v] ELSE o,
                     geometry |-> view_geometry, margin |-> 0,
                     tiled_edges |-> FALSE, fullscreen |-> FALSE]]

\* An output is plugged in: it joins the layout, with no output_data_t, as
\* core_drag_t does nothing when an output is added.
OutputAdded ==
    /\ ~crashed
    /\ \E o \in Outputs \ output_layout :
        output_layout' = output_layout \cup {o}
    /\ emitted' = << >>
    /\ damaged' = [o \in Outputs |-> << >>]
    /\ UNCHANGED << coreVars, view_visible, view_transformers, view_mapped,
                    output_data, focused_output, cursor, crashed, session,
                    wm, plugin, calls, round_trip, inotify >>

\* An output that is not the last one is unplugged: it leaves the layout and
\* is destroyed with the data stored on it, its views and the focus go to
\* an output that remains.
OutputRemoved ==
    /\ ~crashed
    /\ \E o \in output_layout, rest \in output_layout :
        /\ rest # o
        /\ output_layout' = output_layout \ {o}
        /\ output_data' = [output_data EXCEPT ![o] = << >>]
        /\ wm' = [v \in Views |->
                     IF wm[v].output = o
                     THEN [wm[v] EXCEPT !.output = rest]
                     ELSE wm[v]]
        /\ focused_output' = IF focused_output = o THEN rest ELSE focused_output
    /\ emitted' = << >>
    /\ damaged' = [o \in Outputs |-> << >>]
    /\ UNCHANGED << coreVars, view_visible, view_transformers, view_mapped,
                    cursor, crashed, session, plugin, calls, round_trip, inotify >>

NextHotplug ==
    \/ StartDrag /\ session'.start_position \in FramePoints
    \/ \E to \in FramePoints : HandleMotionTo(to)
    \/ HandleInputReleased
    \/ OutputAdded
    \/ OutputRemoved

SpecHotplug == InitHotplug /\ [][NextHotplug]_vars

(* ------------------- the dynamic ini config backend ------------------- *)

\* sizeof(inotify_event), and the buffer handle_config_updated reads into:
\* room for one event with the longest name (NAME_MAX is 255).
SizeofInotifyEvent == 16

INOT_BUF_SIZE == SizeofInotifyEvent + 255 + 1

\* nonull: the text of a C string, "nil" for a null pointer.
nonull(s) == IF s = NULL THEN "nil" ELSE s

\* The directories of the file system, and the file names created in them.
Dirs == {"/etc", "/env", "/xdg", "/home/u/.config"}

FileNames == {"wayfire.ini", "notes.txt"}

\* The environments the compositor is started in.
Environments ==
    [WAYFIRE_CONFIG_FILE : {NULL, "/env/wayfire.ini"},
     XDG_CONFIG_HOME : {NULL, "/xdg"},
     HOME : {"/home/u"}]

\* The config file named on the command line, "" for none.
CmdlineCfgFiles == {"", "/etc/wayfire.ini"}

\* choose_cfg_file: the config file, and the static config_dir, which is
\* assigned only when the XDG default is used and is "" otherwise.
choose_cfg_file(cmdline_cfg_file, env) ==
    LET env_cfg_file == nonull(env.WAYFIRE_CONFIG_FILE)
        xdg == nonull(env.XDG_CONFIG_HOME)
        dir == IF xdg = "nil" THEN nonull(env.HOME) \o "/.config" ELSE xdg
    IN  IF cmdline_cfg_file # ""
        THEN [config_file |-> cmdline_cfg_file, config_dir |-> ""]
        ELSE IF env_cfg_file # nonull(NULL)
             THEN [config_file |-> env_cfg_file, config_dir |-> ""]
             ELSE [config_file |-> dir \o "/wayfire.ini", config_dir |-> dir]

\* inotify_add_watch: the watch is added when the path names something
\* that exists, and fails otherwise.  A watch is the path and its mask.
inotify_add_watch(st, path, mask) ==
    IF path \in Dirs \/ path \in st.files
    THEN [st EXCEPT !.watches = @ \cup {[path |-> path, mask |-> mask]}]
    ELSE st

\* readd_watch: watch config_dir for files created, config_file for writes.
readd_watch(st) ==
    inotify_add_watch(
        inotify_add_watch([st EXCEPT !.trace = Append(@, "readd_watch")],
                          st.config_dir, "IN_CREATE"),
        st.config_file, "IN_MODIFY")

\* reload_config: read the options from the file and watch again.
reload_config(st) ==
    readd_watch([st EXCEPT
        !.trace = Append(@, "load_configuration_options_from_file")])

\* dynamic_ini_config_t::init with the files that exist at that time.
init(cmdline_cfg_file, env, files) ==
    LET chosen == choose_cfg_file(cmdline_cfg_file, env)
    IN  [reload_config([NoBackend EXCEPT !.config_file = chosen.config_file,
                                          !.config_dir = chosen.config_dir,
                                          !.files = files])
         EXCEPT !.trace = << >>]

\* The size of an event in the descriptor: the structure and, for an event
\* of a watched directory, the name padded to a multiple of the structure.
event_size(e) ==
    SizeofInotifyEvent +
    (IF e.name = "" THEN 0
     ELSE ((Len(e.name) + SizeofInotifyEvent) \div SizeofInotifyEvent)
              * SizeofInotifyEvent)

\* read(fd, buf, count): the number of queued events returned by one read,
\* as many whole events from the front of the queue as fit in count bytes.
RECURSIVE read(_, _)
read(queue, count) ==
    IF queue = << >> \/ event_size(Head(queue)) > count THEN 0
    ELSE 1 + read(Tail(queue), count - event_size(Head(queue)))

\* The kernel queues an event, unless it equals the newest one queued.
queue_event(st, e) ==
    IF st.queue # << >> /\ st.queue[Len(st.queue)] = e THEN st
    ELSE [st EXCEPT !.queue = Append(@, e)]

\* The path watched with the mask, if any.
watched(st, path, mask) == [path |-> path, mask |-> mask] \in st.watches

\* One pass of the loop of handle_config_updated: a successful read, and
\* the test of the event at the start of the buffer.
handle_config_updated_read(st) ==
    LET n == read(st.queue, INOT_BUF_SIZE)
        event == Head(st.queue)
    IN  [st EXCEPT
            !.queue = SubSeq(@, n + 1, Len(@)),
            !.batch = @ \o SubSeq(st.queue, 1, n),
            !.should_reload =
                IF event.name = "" THEN TRUE
                ELSE IF st.config_file = event.name THEN TRUE
                ELSE @]

\* The end of handle_config_updated, once read has returned no event.
handle_config_updated_end(st) ==
    IF st.should_reload
    THEN [reload_config(st) EXCEPT
             !.trace = Append(@, "emit_signal reload-config"), !.pc = "idle"]
    ELSE [readd_watch(st) EXCEPT !.pc = "idle"]

\* What the backend leaves alone: the drag core and the plugins.
backendUnchanged ==
    << view, current_output, transformer, params, grab_origin,
       view_held_in_place, on_view_unmap, view_visible, view_transformers,
       view_mapped, output_data, focused_output, cursor, crashed, emitted,
       damaged, session, wm, plugin, calls, round_trip, output_layout >>

\* The compositor after dynamic_ini_config_t::init, started with or without
\* a config file on the command line, in any of the environments, with the
\* chosen config file present or not.
InitConfig ==
    /\ view = NULL
    /\ current_output = NULL
    /\ transformer = NULL
    /\ params = [enable_snap_off |-> FALSE, snap_off_threshold |-> 0,
                 initial_scale |-> 1]
    /\ grab_origin = [x |-> 0, y |-> 0]
    /\ view_held_in_place = FALSE
    /\ on_view_unmap = {}
    /\ view_visible = [v \in Views |-> TRUE]
    /\ view_transformers = [v \in Views |-> << >>]
    /\ view_mapped = [v \in Views |-> TRUE]
    /\ output_data = [o \in Outputs |-> << >>]
    /\ focused_output = "A"
    /\ cursor = "default"
    /\ crashed = FALSE
    /\ emitted = << >>
    /\ damaged = [o \in Outputs |-> << >>]
    /\ session = NoSession
    /\ wm = [v \in Views |->
                [output |-> view_output[v], geometry |-> view_geometry,
                 margin |-> 0, tiled_edges |-> FALSE, fullscreen |-> FALSE]]
    /\ plugin = [o \in Outputs |-> [active |-> FALSE, inhibited |-> FALSE]]
    /\ calls = << >>
    /\ round_trip = NoRoundTrip
    /\ output_layout = Outputs
    /\ \E cmdline_cfg_file \in CmdlineCfgFiles, env \in Environments,
          present \in BOOLEAN :
        inotify = init(cmdline_cfg_file, env,
                       IF present
                       THEN {choose_cfg_file(cmdline_cfg_file, env).config_file}
                       ELSE {})

\* Events may be queued while fewer than MaxEvents are waiting or were read
\* by the handler that is running.
RoomForEvent ==
    Len(inotify.queue) +
    (IF inotify.pc = "read" THEN Len(inotify.batch) ELSE 0) < MaxEvents

\* Some process writes to the config file.
ConfigFileModified ==
    /\ RoomForEvent
    /\ inotify.config_file \in inotify.files
    /\ inotify' =
        IF watched(inotify, inotify.config_file, "IN_MODIFY")
        THEN queue_event(inotify,
                 [mask |-> "IN_MODIFY", name |-> "",
                  path |-> inotify.config_file])
        ELSE inotify
    /\ UNCHANGED backendUnchanged

\* Some process creates a file in the directory of the config file.
FileCreated ==
    /\ RoomForEvent
    /\ \E dir \in Dirs, name \in FileNames :
        LET path == dir \o "/" \o name
            created == [inotify EXCEPT !.files = @ \cup {path}]
        IN  /\ \E n \in FileNames : dir \o "/" \o n = inotify.config_file
            /\ path \notin inotify.files
            /\ inotify' =
                IF watched(inotify, dir, "IN_CREATE")
                THEN queue_event(created,
                         [mask |-> "IN_CREATE", name |-> name, path |-> path])
                ELSE created
    /\ UNCHANGED backendUnchanged

\* Some process deletes the config file: its watch goes with it, and the
\* kernel says so with IN_IGNORED.
ConfigFileDeleted ==
    /\ RoomForEvent
    /\ inotify.config_file \in inotify.files
    /\ LET deleted ==
               [inotify EXCEPT
                   !.files = @ \ {inotify.config_file},
                   !.watches = @ \ {[path |-> inotify.config_file,
                                     mask |-> "IN_MODIFY"]}]
       IN  inotify' =
               IF watched(inotify, inotify.config_file, "IN_MODIFY")
               THEN queue_event(deleted,
                        [mask |-> "IN_IGNORED", name |-> "",
                         path |-> inotify.config_file])
               ELSE deleted
    /\ UNCHANGED backendUnchanged

\* The event loop finds the descriptor readable and calls
\* handle_config_updated, whose first read returns at once.
HandleConfigUpdated ==
    /\ inotify.pc = "idle"
    /\ inotify.queue # << >>
    /\ inotify' = handle_config_updated_read(
                      [inotify EXCEPT !.pc = "read", !.should_reload = FALSE,
                                      !.trace = << >>, !.batch = << >>])
    /\ UNCHANGED backendUnchanged

\* The handler reads again and more events are there.
HandleConfigUpdatedRead ==
    /\ inotify.pc = "read"
    /\ inotify.queue # << >>
    /\ inotify' = handle_config_updated_read(inotify)
    /\ UNCHANGED backendUnchanged

\* The handler reads again with nothing queued.  The descriptor was opened
\* without IN_NONBLOCK, so the read waits; it returns without an event
\* only when a signal interrupts it, and the handler then finishes.
HandleConfigUpdatedEnd ==
    /\ inotify.pc = "read"
    /\ inotify.queue = << >>
    /\ inotify' = handle_config_updated_end(inotify)
    /\ UNCHANGED backendUnchanged

NextConfig ==
    \/ ConfigFileModified
    \/ FileCreated
    \/ ConfigFileDeleted
    \/ HandleConfigUpdated
    \/ HandleConfigUpdatedRead
    \/ HandleConfigUpdatedEnd

SpecConfig == InitConfig /\ [][NextConfig]_vars

(* ------------------ adjust_view_on_output on its own ------------------ *)

\* Relative grabs of the "done" records handed to adjust_view_on_output.
AdjustRelatives == [x : {<<0, 2>>, <<1, 2>>, <<1, 3>>}, y : {<<0, 2>>, <<1, 3>>}]

\* States of the view a "done" record names: on either output, at one of
\* two places, with or without a margin, tiled, fullscreen or neither.
AdjustViewStates ==
    [output : Outputs,
     geometry : {[x |-> px, y |-> 0, width |-> 2, height |-> 2] : px \in 0..1},
     margin : 0..1,
     tiled_edges : BOOLEAN,
     fullscreen : BOOLEAN]

\* An idle core, and a "done" record about a view in some state, mapped or
\* not, as a plugin receives it.
InitAdjust ==
    /\ view = NULL
    /\ current_output = NULL
    /\ transformer = NULL
    /\ params = [enable_snap_off |-> FALSE, snap_off_threshold |-> 0,
                 initial_scale |-> 1]
    /\ grab_origin = [x |-> 0, y |-> 0]
    /\ view_held_in_place = FALSE
    /\ on_view_unmap = {}
    /\ view_visible = [v \in Views |-> TRUE]
    /\ view_transformers = [v \in Views |-> << >>]
    /\ output_data = [o \in Outputs |-> << >>]
    /\ focused_output = "A"
    /\ cursor = "default"
    /\ crashed = FALSE
    /\ damaged = [o \in Outputs |-> << >>]
    /\ session = NoSession
    /\ plugin = [o \in Outputs |-> [active |-> FALSE, inhibited |-> FALSE]]
    /\ calls = << >>
    /\ round_trip = NoRoundTrip
    /\ output_layout = Outputs
    /\ inotify = NoBackend
    /\ \E v \in Views, focused \in Outputs, relative \in AdjustRelatives,
          position \in Points, w \in AdjustViewStates, mapped \in BOOLEAN :
        /\ emitted = << drag_done_signal(focused, v, relative, position) >>
        /\ view_mapped = [u \in Views |-> IF u = v THEN mapped ELSE TRUE]
        /\ wm = [u \in Views |->
                    IF u = v
                    THEN w
                    ELSE [output |-> view_output[u], geometry |-> view_geometry,
                          margin |-> 0, tiled_edges |-> FALSE,
                          fullscreen |-> FALSE]]

\* A plugin passes the "done" record it received to adjust_view_on_output.
AdjustViewOnOutput ==
    /\ ~crashed
    /\ Len(emitted) = 1
    /\ emitted[1].name = "done"
    /\ wm' = [wm EXCEPT
                 ![emitted[1].view] = adjust_view_on_output(emitted[1], @)]
    /\ calls' = adjust_calls(emitted[1], wm[emitted[1].view])
    /\ emitted' = << >>
    /\ UNCHANGED << coreVars, view_visible, view_transformers, view_mapped,
                    output_data, focused_output, cursor, crashed, damaged,
                    session, plugin, round_trip, output_layout, inotify >>

NextAdjust == AdjustViewOnOutput

SpecAdjust == InitAdjust /\ [][NextAdjust]_vars

(* ------------------ callers without the grab discipline --------------- *)

\* core_drag_t::start_drag called in any state of the core, also while a
\* drag is going on, on a view that carries no drag transformer yet.
CallStartDrag ==
    /\ ~crashed
    /\ UNCHANGED envVars
    /\ \E v \in Views, g \in Points, options \in DragOptions :
        /\ view_mapped[v]
        /\ view_transformers[v] = << >>
        /\ Contains(BoxMove(view_bounding_box(v),
                            origin(layout_geometry[wm[v].output])), g)
        /\ start_drag_derived(v, g, options)
        /\ session' = [active |-> TRUE, start_position |-> g,
                       relative_grab |->
                           find_relative_grab(
                               BoxMove(view_bounding_box(v),
                                       origin(layout_geometry[wm[v].output])), g),
                       last_input |-> g, snap_offs |-> 0, dones |-> 0,
                       last_focus |-> NULL, on_start_output |-> TRUE,
                       motions |-> 0, pc |-> 0, data |-> NoData]
        /\ UNCHANGED view_mapped

\* core_drag_t::handle_motion called in any state of the core.
CallHandleMotion ==
    /\ ~crashed
    /\ UNCHANGED envVars
    /\ \E to \in Points :
        /\ handle_motion(to)
        /\ session' = IF crashed' \/ view = NULL THEN session
                      ELSE session_after_motion(to, emitted')
        /\ UNCHANGED view_mapped

\* core_drag_t::handle_input_released called in any state of the core.
CallHandleInputReleased ==
    /\ ~crashed
    /\ UNCHANGED envVars
    /\ handle_input_released
    /\ session' = IF crashed' THEN session
                  ELSE session_after_release(emitted')
    /\ UNCHANGED view_mapped

NextUnguarded ==
    \/ CallStartDrag
    \/ CallHandleMotion
    \/ CallHandleInputReleased

SpecUnguarded == Init /\ [][NextUnguarded]_vars

(* --------------------------- wayfire_move ----------------------------- *)

\* The state the move plugin instances act on: their own, the views'
\* window-management state and the record of the calls made so far.
PluginEnv == [plugin |-> plugin, wm |-> wm, calls |-> << >>]

\* wayfire_move::can_handle_drag on output o: can_activate_plugin with
\* PLUGIN_ACTIVATE_ALLOW_MULTIPLE, refused on an inhibited output only.
can_handle_drag(o, env) == ~env.plugin[o].inhibited

\* wayfire_move::grab_input(view) of the instance on output o; v is
\* view ?: drag_helper->view.
grab_input(o, v, env) ==
    IF v = NULL \/ env.plugin[o].inhibited
    THEN env
    ELSE [env EXCEPT
             !.plugin[o].active = TRUE,
             !.calls = @ \o << Call("activate_plugin", NULL, o, NoPoint, TRUE),
                               Call("grab", NULL, o, NoPoint, TRUE) >>]

\* wayfire_move::deactivate of the instance on output o.
deactivate(o, env) ==
    [env EXCEPT
        !.plugin[o].active = FALSE,
        !.calls = @ \o << Call("ungrab", NULL, o, NoPoint, FALSE),
                          Call("deactivate_plugin", NULL, o, NoPoint, FALSE) >>]

\* Variant of on_drag_output_focus: grab_input is called whether or not the
\* plugin is active on the output.
on_drag_output_focus_regrab(o, ev, v, env) ==
    IF ev.focus_output = o /\ can_handle_drag(o, env)
    THEN grab_input(o, v,
             [env EXCEPT !.calls = Append(@, Call("set_scale", NULL, o,
                                                  NoPoint, TRUE))])
    ELSE env

\* wayfire_move::on_drag_output_focus of the instance on output o; v is
\* drag_helper->view.  set_scale(1.0) is recorded as a call.
on_drag_output_focus(o, ev, v, env) ==
    IF ev.focus_output = o /\ can_handle_drag(o, env)
    THEN LET scaled == [env EXCEPT !.calls = Append(@, Call("set_scale", NULL, o,
                                                           NoPoint, TRUE))]
         IN  IF ~env.plugin[o].active
             THEN grab_input(o, v, scaled)
             ELSE scaled
    ELSE env

\* adjust_view_on_snap_off(view): tile_request(0) takes the tiled edges off.
adjust_view_on_snap_off(v, env) ==
    IF env.wm[v].tiled_edges /\ ~env.wm[v].fullscreen
    THEN [env EXCEPT
             !.wm[v].tiled_edges = FALSE,
             !.calls = Append(@, Call("tile_request", v, NULL, NoPoint, FALSE))]
    ELSE env

\* wayfire_move::on_drag_snap_off of the instance on output o.
on_drag_snap_off(o, ev, v, env) ==
    IF ev.focus_output = o /\ can_handle_drag(o, env)
    THEN adjust_view_on_snap_off(v,
             [env EXCEPT !.calls = Append(@, Call("adjust_view_on_snap_off", v,
                                                  o, NoPoint, FALSE))])
    ELSE env

\* Variant of on_drag_done: only the instance that adjusts the view
\* deactivates.
on_drag_done_focused_only(o, ev, v, env) ==
    IF ev.focused_output = o /\ can_handle_drag(o, env)
    THEN deactivate(o,
             [env EXCEPT
                 !.wm[ev.view] = adjust_view_on_output(ev, @),
                 !.calls = @ \o << Call("adjust_view_on_output", ev.view, o,
                                        NoPoint, FALSE) >>
                             \o adjust_calls(ev, env.wm[ev.view])])
    ELSE env

\* wayfire_move::on_drag_done of the instance on output o.
on_drag_done(o, ev, v, env) ==
    deactivate(o,
        IF ev.focused_output = o /\ can_handle_drag(o, env)
        THEN [env EXCEPT
                 !.wm[ev.view] = adjust_view_on_output(ev, @),
                 !.calls = @ \o << Call("adjust_view_on_output", ev.view, o,
                                        NoPoint, FALSE) >>
                             \o adjust_calls(ev, env.wm[ev.view])]
        ELSE env)

\* The callback the instance on output o has connected to the signal.
callback(o, ev, v, env) ==
    CASE ev.name = "focus-output" -> on_drag_output_focus(o, ev, v, env)
      [] ev.name = "snap-off" -> on_drag_snap_off(o, ev, v, env)
      [] ev.name = "done" -> on_drag_done(o, ev, v, env)

\* emit_signal(name, ev): the callbacks of the instances on the first n
\* outputs run one after the other.
RECURSIVE emit_signal(_, _, _, _)
emit_signal(n, ev, v, env) ==
    IF n = 0
    THEN env
    ELSE callback(OutputOrder[n], ev, v, emit_signal(n - 1, ev, v, env))

\* The signals of one operation of the core, each delivered to every
\* instance before the next is emitted; v is drag_helper->view meanwhile.
RECURSIVE deliver(_, _, _)
deliver(signals, v, env) ==
    IF signals = << >>
    THEN env
    ELSE deliver(Tail(signals), v,
                 emit_signal(Len(OutputOrder), signals[1], v, env))

\* drag_options_t as wayfire_move::initiate fills it in for a view in
\* state w from the options move/enable_snap_off and move/snap_off_threshold.
initiate_options(w, move_enable_snap_off, move_snap_off_threshold) ==
    [enable_snap_off |-> move_enable_snap_off /\ (w.fullscreen \/ w.tiled_edges),
     snap_off_threshold |-> move_snap_off_threshold,
     initial_scale |-> 1]

(* ------------------ the move plugin on every output ------------------- *)

\* Some instance holds the input grab, and so receives motion and release.
grabbed == \E o \in Outputs : plugin[o].active

\* A compositor with a move plugin instance on every output, none active;
\* either output may be inhibited and a view may be tiled or fullscreen.
InitPlugin ==
    /\ view = NULL
    /\ current_output = NULL
    /\ transformer = NULL
    /\ params = [enable_snap_off |-> FALSE, snap_off_threshold |-> 0,
                 initial_scale |-> 1]
    /\ grab_origin = [x |-> 0, y |-> 0]
    /\ view_held_in_place = FALSE
    /\ on_view_unmap = {}
    /\ view_visible = [v \in Views |-> TRUE]
    /\ view_transformers = [v \in Views |-> << >>]
    /\ view_mapped = [v \in Views |-> TRUE]
    /\ output_data = [o \in Outputs |-> << >>]
    /\ focused_output = "A"
    /\ cursor = "default"
    /\ crashed = FALSE
    /\ emitted = << >>
    /\ damaged = [o \in Outputs |-> << >>]
    /\ session = NoSession
    /\ calls = << >>
    /\ round_trip = NoRoundTrip
    /\ output_layout = Outputs
    /\ inotify = NoBackend
    /\ \E inhibited \in [Outputs -> BOOLEAN] :
        plugin = [o \in Outputs |-> [active |-> FALSE,
                                     inhibited |-> inhibited[o]]]
    /\ \E tiled \in [Views -> BOOLEAN], full \in [Views -> BOOLEAN] :
        wm = [v \in Views |->
                 [output |-> view_output[v], geometry |-> view_geometry,
                  margin |-> 0, tiled_edges |-> tiled[v],
                  fullscreen |-> full[v]]]

\* wayfire_move::initiate(view) of the instance on the view's output, with
\* the input on the view: grab_input, then start_drag.  One drag session is
\* followed from here to its "done".
PluginInitiate ==
    /\ ~crashed
    /\ view = NULL
    /\ session = NoSession
    /\ \E v \in Views, g \in FramePoints, enable \in BOOLEAN, t \in 0..MaxThreshold :
        LET o == wm[v].output
            env == grab_input(o, v, PluginEnv)
        IN  /\ view_mapped[v]
            /\ ~plugin[o].inhibited
            /\ ~plugin[o].active
            /\ Contains(BoxMove(view_bounding_box(v),
                                origin(layout_geometry[o])), g)
            /\ start_drag_derived(v, g, initiate_options(wm[v], enable, t))
            /\ session' = [active |-> TRUE, start_position |-> g,
                           relative_grab |->
                               find_relative_grab(
                                   BoxMove(view_bounding_box(v),
                                           origin(layout_geometry[o])), g),
                           last_input |-> g, snap_offs |-> 0, dones |-> 0,
                           last_focus |-> NULL, on_start_output |-> TRUE,
                           motions |-> 0, pc |-> 0, data |-> NoData]
            /\ plugin' = env.plugin
            /\ wm' = env.wm
            /\ calls' = env.calls
    /\ UNCHANGED << view_mapped, round_trip, output_layout, inotify >>

\* wayfire_move::handle_input_motion of an instance that holds the grab:
\* handle_motion(to), whose signals the instances handle as they are emitted.
PluginMotionTo(to) ==
    /\ ~crashed
    /\ grabbed
    /\ view # NULL
    /\ handle_motion(to)
    /\ session' = session_after_motion(to, emitted')
    /\ LET env == deliver(emitted', view, PluginEnv)
       IN  /\ plugin' = env.plugin
           /\ wm' = env.wm
           /\ calls' = env.calls
    /\ UNCHANGED << view_mapped, round_trip, output_layout, inotify >>

PluginMotion == \E to \in FramePoints : PluginMotionTo(to)

\* wayfire_move::input_pressed(WLR_BUTTON_RELEASED) of an instance that holds
\* the grab: handle_input_released(), whose "done" the instances handle.
PluginRelease ==
    /\ ~crashed
    /\ grabbed
    /\ view # NULL
    /\ handle_input_released
    /\ session' = session_after_release(emitted')
    /\ LET env == deliver(emitted', view, PluginEnv)
       IN  /\ plugin' = env.plugin
           /\ wm' = env.wm
           /\ calls' = env.calls
    /\ UNCHANGED << view_mapped, round_trip, output_layout, inotify >>

NextPlugin ==
    \/ PluginInitiate
    \/ PluginMotion
    \/ PluginRelease

SpecPlugin == InitPlugin /\ [][NextPlugin]_vars

(* ------------------------ start_drag on its own ----------------------- *)

\* States of the view a drag is started on: on either output, at one of two
\* places, up to MaxWidth wide, one or two high, with or without a margin.
StartViewStates ==
    [output : Outputs,
     geometry : {[x |-> px, y |-> 0, width |-> w, height |-> h] :
                    px \in 0..1, w \in 1..MaxWidth, h \in 1..2},
     margin : 0..1,
     tiled_edges : {FALSE},
     fullscreen : {FALSE}]

\* The points inside a box.
PointsIn(box) ==
    {[x |-> gx, y |-> gy] : gx \in box.x..(box.x + box.width - 1),
                            gy \in box.y..(box.y + box.height - 1)}

\* An idle core and views of some size at some place.
InitStart ==
    /\ view = NULL
    /\ current_output = NULL
    /\ transformer = NULL
    /\ params = [enable_snap_off |-> FALSE, snap_off_threshold |-> 0,
                 initial_scale |-> 1]
    /\ grab_origin = [x |-> 0, y |-> 0]
    /\ view_held_in_place = FALSE
    /\ on_view_unmap = {}
    /\ view_visible = [v \in Views |-> TRUE]
    /\ view_transformers = [v \in Views |-> << >>]
    /\ view_mapped = [v \in Views |-> TRUE]
    /\ output_data = [o \in Outputs |-> << >>]
    /\ focused_output = "A"
    /\ cursor = "default"
    /\ crashed = FALSE
    /\ emitted = << >>
    /\ damaged = [o \in Outputs |-> << >>]
    /\ session = NoSession
    /\ plugin = [o \in Outputs |-> [active |-> FALSE, inhibited |-> FALSE]]
    /\ calls = << >>
    /\ round_trip = NoRoundTrip
    /\ output_layout = Outputs
    /\ inotify = NoBackend
    /\ \E w \in StartViewStates : wm = [v \in Views |-> w]

\* start_drag(view, grab_position, options) on an idle core, with the grab
\* anywhere inside the view's bounding box.
StartDragInside ==
    /\ ~crashed
    /\ UNCHANGED envVars
    /\ view = NULL
    /\ \E v \in Views, options \in DragOptions :
        LET bbox == BoxMove(view_bounding_box(v),
                            origin(layout_geometry[wm[v].output]))
        IN  \E g \in PointsIn(bbox) :
                /\ start_drag_derived(v, g, options)
                /\ session' = [active |-> TRUE, start_position |-> g,
                               relative_grab |-> find_relative_grab(bbox, g),
                               last_input |-> g, snap_offs |-> 0, dones |-> 0,
                               last_focus |-> NULL, on_start_output |-> TRUE,
                               motions |-> 0, pc |-> 0, data |-> NoData]
                /\ UNCHANGED view_mapped

NextStart == StartDragInside

SpecStart == InitStart /\ [][NextStart]_vars

(* -------------------- geometry helpers on their own ------------------- *)

\* Relative fractions with components in [0, 1]: numerator over denominator.
Fractions == {f \in (0..MaxDen) \X (1..MaxDen) : f[1] <= f[2]}

\* Non-degenerate sizes.
Sizes == [width : 1..(MaxX + 1), height : 1..(MaxY + 1)]

\* An idle core, and a size, a grab point and a relative fraction to call
\* the geometry helpers with.
InitGeometry ==
    /\ view = NULL
    /\ current_output = NULL
    /\ transformer = NULL
    /\ params = [enable_snap_off |-> FALSE, snap_off_threshold |-> 0,
                 initial_scale |-> 1]
    /\ grab_origin = [x |-> 0, y |-> 0]
    /\ view_held_in_place = FALSE
    /\ on_view_unmap = {}
    /\ view_visible = [v \in Views |-> TRUE]
    /\ view_transformers = [v \in Views |-> << >>]
    /\ view_mapped = [v \in Views |-> TRUE]
    /\ output_data = [o \in Outputs |-> << >>]
    /\ focused_output = "A"
    /\ cursor = "default"
    /\ crashed = FALSE
    /\ emitted = << >>
    /\ damaged = [o \in Outputs |-> << >>]
    /\ session = NoSession
    /\ wm = [v \in Views |->
                [output |-> view_output[v], geometry |-> view_geometry,
                 margin |-> 0, tiled_edges |-> FALSE, fullscreen |-> FALSE]]
    /\ plugin = [o \in Outputs |-> [active |-> FALSE, inhibited |-> FALSE]]
    /\ calls = << >>
    /\ output_layout = Outputs
    /\ inotify = NoBackend
    /\ \E size \in Sizes, grab \in Points, fx \in Fractions, fy \in Fractions :
        round_trip = [NoRoundTrip EXCEPT !.pc = "start", !.size = size,
                                        !.grab = grab,
                                        !.relative = [x |-> fx, y |-> fy]]

\* box = find_geometry_around(size, grab, relative)
FindGeometryAround ==
    /\ round_trip.pc = "start"
    /\ round_trip' =
           [round_trip EXCEPT
               !.pc = "placed",
               !.box = find_geometry_around(round_trip.size, round_trip.grab,
                                            round_trip.relative)]
    /\ UNCHANGED << coreVars, view_visible, view_transformers, view_mapped,
                    output_data, focused_output, cursor, crashed, emitted,
                    damaged, session, wm, plugin, calls, output_layout, inotify >>

\* result = find_relative_grab(box, grab)
FindRelativeGrab ==
    /\ round_trip.pc = "placed"
    /\ round_trip' =
           [round_trip EXCEPT
               !.pc = "done",
               !.result = find_relative_grab(round_trip.box, round_trip.grab)]
    /\ UNCHANGED << coreVars, view_visible, view_transformers, view_mapped,
                    output_data, focused_output, cursor, crashed, emitted,
                    damaged, session, wm, plugin, calls, output_layout, inotify >>

NextGeometry ==
    \/ FindGeometryAround
    \/ FindRelativeGrab

SpecGeometry == InitGeometry /\ [][NextGeometry]_vars

(* ------------------------------ properties ---------------------------- *)

DistSq(p, q) == (p.x - q.x) * (p.x - q.x) + (p.y - q.y) * (p.y - q.y)

Done(signals) == Select(signals, "done")

FocusOutput(signals) == Select(signals, "focus-output")

SnapOff(signals) == Select(signals, "snap-off")

\* C1: between a start_drag and its release the session view is not null;
\* once released (by handle_input_released or by an unmap), view and
\* current_output are both null and stay so until the next start_drag.
C1_SessionNullness ==
    /\ session.active => view # NULL
    /\ ~session.active => view = NULL /\ current_output = NULL

\* A release has just reset a session that had a focused output.
C1_Witness ==
    /\ ~session.active
    /\ Len(Done(emitted)) = 1
    /\ Done(emitted)[1].focused_output # NULL
    /\ view = NULL
    /\ current_output = NULL

\* C2: when the dragged view emits "unmapped" while dragging, the core emits
\* "done" with the view, focused output, grab position and relative grab a
\* release would have stored in that state, removes the overlays and the
\* transformer, shows the view again and ends idle.
C2_UnmapIsForcedRelease ==
    [][\A v \in Views :
        (ViewUnmappedOf(v) /\ v = view) =>
            /\ emitted' = << drag_done_signal(current_output, v,
                                              Tr.relative_grab, Tr.grab_position) >>
            /\ view' = NULL
            /\ current_output' = NULL
            /\ ~view_held_in_place'
            /\ \A o \in Outputs : output_data'[o] = << >>
            /\ view_transformers'[v] = << >>
            /\ view_visible'[v]
            /\ ~crashed']_vars

\* The dragged view was unmapped after its focus had been set, and "done"
\* was emitted for it.
C2_Witness ==
    /\ Len(Done(emitted)) = 1
    /\ ~view_mapped[Done(emitted)[1].view]
    /\ Done(emitted)[1].focused_output # NULL
    /\ view = NULL

\* C3: a start_drag is followed by at most one "done", and an unmap of a
\* view while the core is idle emits nothing and changes no core state.
C3_OneDonePerSession ==
    /\ [](session.dones <= 1)
    /\ [][\A v \in Views :
            (ViewUnmappedOf(v) /\ view = NULL) =>
                /\ emitted' = << >>
                /\ UNCHANGED << coreVars, view_visible, view_transformers,
                                output_data, crashed >>]_vars

\* The view dragged last was released and then unmapped while idle.
C3_Witness ==
    /\ view = NULL
    /\ session.dones = 1
    /\ emitted = << >>
    /\ transformer # NULL
    /\ ~view_mapped[transformer]
    /\ \A w \in Views \ {transformer} : view_mapped[w]

\* C4: once "snap-off" has been emitted in a session, no later handle_motion
\* holds the view in place again or emits another "snap-off".
C4_SnapOffMonotonic ==
    /\ [](session.snap_offs <= 1)
    /\ [][\A to \in Points :
            (HandleMotionTo(to) /\ session.snap_offs >= 1) =>
                /\ ~view_held_in_place'
                /\ SnapOff(emitted') = << >>]_vars

\* After the snap-off the input has come back to the grab origin.
C4_Witness ==
    /\ session.active
    /\ session.snap_offs = 1
    /\ params.snap_off_threshold >= 1
    /\ session.last_input = session.start_position
    /\ ~view_held_in_place

C6_HeldAnchor ==
    [][\A to \in Points :
        HandleMotionTo(to) =>
            IF view_held_in_place'
            THEN Tr'.grab_position = session.start_position
            ELSE Tr'.grab_position = to]_vars

\* The input moved away from the grab origin while the view stayed anchored.
C6_Witness ==
    /\ session.active
    /\ view_held_in_place
    /\ session.last_input # session.start_position
    /\ Tr.grab_position = session.start_position

\* C7: the grab_position of "done" is the input position at the drop: the
\* point of the last handle_motion, or the start_drag position if none.
C7_DonePositionIsInput ==
    [][Len(Done(emitted')) = 1 =>
        Done(emitted')[1].grab_position = session.last_input]_vars

\* C8: "done" carries the dragged view, the relative grab fixed at
\* start_drag and the output focused just before the release, although
\* view and current_output are already null when it is delivered.
C8_CompletionRecord ==
    [][Len(Done(emitted')) > 0 =>
        /\ Len(Done(emitted')) = 1
        /\ view # NULL
        /\ Done(emitted')[1].view = view
        /\ Done(emitted')[1].relative_grab = session.relative_grab
        /\ Done(emitted')[1].focused_output = current_output
        /\ view' = NULL
        /\ current_output' = NULL]_vars

\* "done" was delivered for a view grabbed off its corner on a focused output.
C8_Witness ==
    /\ Len(Done(emitted)) = 1
    /\ Done(emitted)[1].view # NULL
    /\ Done(emitted)[1].focused_output # NULL
    /\ Done(emitted)[1].relative_grab.x[1] # 0
    /\ view = NULL

\* C9: every "focus-output" has a previous output different from the new
\* one, its new output is current_output at delivery, and its previous
\* output is the new output of the session's preceding "focus-output", or
\* null for the first of the session.
C9_FocusChaining ==
    [][\A i \in 1..Len(FocusOutput(emitted')) :
        LET data == FocusOutput(emitted')[i]
        IN  /\ data.previous_focus_output # data.focus_output
            /\ data.focus_output = current_output'
            /\ data.previous_focus_output = session.last_focus]_vars

\* A second "focus-output" of a session: previous and new output both set.
C9_Witness ==
    /\ session.active
    /\ Len(FocusOutput(emitted)) = 1
    /\ FocusOutput(emitted)[1].previous_focus_output # NULL
    /\ FocusOutput(emitted)[1].focus_output # NULL

\* C10: in a drag started on output A whose motions so far stayed on A, a
\* handle_motion onto another output B emits exactly one "focus-output",
\* with new output B and previous output A.
C10_CrossOutputHandOff ==
    [][\A to \in Points :
        LET A == get_output_coords_at(session.start_position)
            B == get_output_coords_at(to)
        IN  (HandleMotionTo(to) /\ session.on_start_output
                /\ A # NULL /\ B # NULL /\ B # A) =>
                FocusOutput(emitted') = << drag_focus_output_signal(A, B) >>]_vars


\* C11: every start_drag emits, before it returns, a "focus-output" for the
\* output under the grab position, so the session has a focused output
\* before its first handle_motion.
C11_FocusAtDragBegin ==
    [][StartDrag =>
        /\ Len(FocusOutput(emitted')) = 1
        /\ FocusOutput(emitted')[1].focus_output
               = get_output_coords_at(session'.start_position)
        /\ current_output' # NULL]_vars


\* C12: a handle_motion(p) that directly follows a handle_motion(p) of the
\* same session emits no "focus-output" and no "snap-off" and leaves
\* grab_position, view_held_in_place and current_output as they were.
C12_MotionIdempotent ==
    [][\A to \in Points :
        (HandleMotionTo(to) /\ session.motions >= 1 /\ session.last_input = to) =>
            /\ FocusOutput(emitted') = << >>
            /\ SnapOff(emitted') = << >>
            /\ Tr'.grab_position = Tr.grab_position
            /\ view_held_in_place' = view_held_in_place
            /\ current_output' = current_output]_vars

\* The point of a motion that snapped the view off and moved it onto another
\* output has just been reported a second time.
C12_Witness ==
    /\ session.active
    /\ session.motions = 2
    /\ session.snap_offs = 1
    /\ params.snap_off_threshold >= 1
    /\ ~session.on_start_output
    /\ current_output # NULL
    /\ Tr.grab_position = session.last_input
    /\ emitted = << >>


\* C13: a handle_motion to a point that lies on no output leaves
\* current_output as it was and emits no "focus-output".
C13_FocusMiss ==
    [][\A to \in Points :
        (HandleMotionTo(to) /\ get_output_coords_at(to) = NULL) =>
            /\ current_output' = current_output
            /\ FocusOutput(emitted') = << >>]_vars


\* C14: every "snap-off" carries the output focused now: its focus_output is
\* not null and is the output under the position of the handle_motion that
\* emitted it, also on the first motion of a session and when that motion
\* crosses onto another output.
C14_SnapOffPayload ==
    [][\A to \in Points :
        (HandleMotionTo(to) /\ get_output_coords_at(to) # NULL) =>
            \A i \in 1..Len(SnapOff(emitted')) :
                /\ SnapOff(emitted')[i].focus_output # NULL
                /\ SnapOff(emitted')[i].focus_output = get_output_coords_at(to)]_vars


\* C15: the focused_output of "done" is the output where the view was
\* dropped: it is not null and is the output under the input position at the
\* release, also when the session saw no handle_motion.
C15_DoneFocusedOutput ==
    [][(Len(Done(emitted')) = 1
            /\ get_output_coords_at(session.last_input) # NULL) =>
        /\ Done(emitted')[1].focused_output # NULL
        /\ Done(emitted')[1].focused_output
               = get_output_coords_at(session.last_input)]_vars


\* C16: after any sequence of start_drag, handle_motion and
\* handle_input_released calls, start_drag during a drag included, at most
\* one view is hidden with the drag transformer installed, and it is the
\* view of the core's session.
C16_SingleSession ==
    LET dragged == {v \in Views : ~view_visible[v] /\ view_transformers[v] # << >>}
    IN  /\ Cardinality(dragged) <= 1
        /\ dragged \subseteq {view}


\* C17: handle_motion and handle_input_released called while no session is
\* active emit nothing, touch no view and no output, do not end the process
\* and leave the core idle with view and current_output null.
C17_StrayEventsAreNoOps ==
    [][(view = NULL /\ (CallHandleMotion \/ CallHandleInputReleased)) =>
        /\ emitted' = << >>
        /\ ~crashed'
        /\ UNCHANGED << view_visible, view_transformers, output_data,
                        focused_output >>
        /\ view' = NULL
        /\ current_output' = NULL]_vars


\* C18: in a release the damage of an output is applied while the drag
\* transformer is still on the view and that output still holds its
\* output_data_t; an output_data_t is erased only after its output was
\* damaged; the transformer is popped only once every output has been
\* damaged and has lost its output_data_t; and "done" is emitted after all
\* of that, with the view visible again.
C18_DetachOrdering ==
    [][/\ \A o \in Outputs :
            (damaged'[o] # damaged[o] /\ damaged'[o] # << >>) =>
                /\ view # NULL
                /\ view_transformers[view] # << >>
                /\ output_data[o] # << >>
                /\ damaged'[o][1]
                       = BoxMove(get_bounding_box(Tr, view_geometry),
                                 PointSub([x |-> 0, y |-> 0],
                                          origin(layout_geometry[o])))
       /\ \A o \in Outputs :
            (output_data[o] # << >> /\ output_data'[o] = << >>) =>
                /\ damaged[o] # << >>
                /\ view_transformers[view] # << >>
       /\ \A v \in Views :
            (view_transformers[v] # << >> /\ view_transformers'[v] = << >>) =>
                \A o \in Outputs : damaged[o] # << >> /\ output_data[o] = << >>
       /\ Len(Done(emitted')) > 0 =>
            /\ \A o \in Outputs : damaged[o] # << >> /\ output_data[o] = << >>
            /\ \A v \in Views : view_transformers[v] = << >> /\ view_visible[v]
      ]_vars

\* A release has run to its end after the view had been moved: the damage
\* of each output is the moved (transformed) box, not the view's own.
C18_Witness ==
    /\ Len(Done(emitted)) = 1
    /\ session.pc = 0
    /\ \A o \in Outputs :
        /\ output_data[o] = << >>
        /\ damaged[o] # << >>
        /\ damaged[o][1] # BoxMove(view_geometry,
                                   PointSub([x |-> 0, y |-> 0],
                                            origin(layout_geometry[o])))
    /\ \A v \in Views : view_transformers[v] = << >> /\ view_visible[v]


\* C19: while a session is active every output holds an output_data_t for
\* the session's view with both hooks registered; once the session has
\* ended, by release or by the unmap of its view, no output holds an
\* output_data_t or a drag hook, so no hook runs for a view without session.
C19_OverlayLifetime ==
    /\ view # NULL =>
        \A o \in Outputs :
            /\ Len(output_data[o]) = 1
            /\ output_data[o][1].view = view
            /\ drag_effects(o) = {"damage_overlay", "render_overlay"}
    /\ view = NULL =>
        \A o \in Outputs : output_data[o] = << >> /\ drag_effects(o) = {}
    /\ \A o \in Outputs :
        output_data[o] # << >> => view_mapped[output_data[o][1].view]

\* The unmap of the dragged view has just ended its session: every output
\* got its last damage and holds no output_data_t and no drag hook.
C19_Witness ==
    /\ Len(Done(emitted)) = 1
    /\ ~view_mapped[Done(emitted)[1].view]
    /\ view = NULL
    /\ \A o \in Outputs :
        /\ damaged[o] # << >>
        /\ output_data[o] = << >>
        /\ drag_effects(o) = {}


\* C20: in every state of a session the dragged view is hidden and carries
\* the drag transformer; every other view, and every view once its session
\* has ended by release or unmap, is visible and carries none, so no view is
\* hidden or transformed while the core is idle.
C20_VisibilityAndTransformer ==
    /\ view # NULL =>
        /\ ~view_visible[view]
        /\ Len(view_transformers[view]) = 1
        /\ transformer = view
    /\ \A v \in Views \ {view} :
        view_visible[v] /\ view_transformers[v] = << >>

\* A drag of a mapped view that was moved has just been released: the view
\* is visible and untransformed again and the core is idle.
C20_Witness ==
    /\ view = NULL
    /\ Len(Done(emitted)) = 1
    /\ Done(emitted)[1].grab_position # NoPoint
    /\ view_mapped[Done(emitted)[1].view]
    /\ view_visible[Done(emitted)[1].view]
    /\ view_transformers[Done(emitted)[1].view] = << >>
    /\ \E o \in Outputs :
        damaged[o][1] # BoxMove(view_geometry,
                                PointSub([x |-> 0, y |-> 0],
                                         origin(layout_geometry[o])))


\* The overlay's bounding box now, in the local coordinates of output o.
OverlayBox(o) ==
    BoxOffset(get_bounding_box(Tr, view_geometry), layout_geometry[o])

CallsOf(op) == SelectSeq(calls, LAMBDA c : c.op = op)

\* C22: adjust_view_on_output leaves an unmapped view untouched: it makes no
\* call and changes no view; a mapped view on another output than the
\* record's focused_output is moved to that output, once and before
\* anything else, and is on it afterwards.
C22_AdjustGuard ==
    [][AdjustViewOnOutput =>
        LET ev == emitted[1]
        IN  /\ ~view_mapped[ev.view] => calls' = << >> /\ wm' = wm
            /\ (view_mapped[ev.view] /\ wm[ev.view].output # ev.focused_output) =>
                /\ Len(CallsOf("move_view_to_output")') = 1
                /\ calls'[1] = Call("move_view_to_output", ev.view,
                                    ev.focused_output, NoPoint, FALSE)
                /\ wm'[ev.view].output = ev.focused_output
            /\ (view_mapped[ev.view] /\ wm[ev.view].output = ev.focused_output) =>
                /\ CallsOf("move_view_to_output")' = << >>
                /\ wm'[ev.view].output = ev.focused_output]_vars

\* The record about an unmapped, tiled view has been handled: nothing was
\* called for it.
C22_Witness ==
    /\ emitted = << >>
    /\ calls = << >>
    /\ \E v \in Views :
        /\ ~view_mapped[v]
        /\ wm[v].tiled_edges
        /\ wm[v].margin = 1


\* C23: set_scale during a drag only sets the value the transformer's scale
\* factor runs to: the scale shown, the session view, current_output,
\* view_held_in_place, grab_origin, grab_position and relative_grab stay as
\* they were and nothing is emitted.
C23_SetScaleNoTransition ==
    [][SetScale =>
        /\ Tr'.scale_factor.end \in Scales
        /\ Tr'.scale_factor.value = Tr.scale_factor.value
        /\ Tr'.grab_position = Tr.grab_position
        /\ Tr'.relative_grab = Tr.relative_grab
        /\ emitted' = << >>
        /\ UNCHANGED << view, current_output, transformer, view_held_in_place,
                        grab_origin, params, on_view_unmap, view_visible,
                        output_data, session >>]_vars

\* The scale of a held view on a focused output has been re-targeted and
\* has not moved yet.
C23_Witness ==
    /\ view # NULL
    /\ view_held_in_place
    /\ current_output # NULL
    /\ session.last_input # session.start_position
    /\ Tr.scale_factor.end = 2
    /\ Tr.scale_factor.value = 1


\* The fractions a and b are the same number.
SameFraction(a, b) == a[1] * b[2] = b[1] * a[2]

\* The fraction `got` is `whole / length` for the largest whole number not
\* above `asked * length`.
FlooredFraction(got, asked, length) ==
    /\ got[2] = length
    /\ got[1] * asked[2] <= asked[1] * length
    /\ asked[1] * length < (got[1] + 1) * asked[2]

C25_FocusTracksWhileHeld ==
    [][\A to \in Points :
        (HandleMotionTo(to) /\ ~crashed' /\ get_output_coords_at(to) # NULL) =>
            /\ current_output' = get_output_coords_at(to)
            /\ view_held_in_place' => Tr'.grab_position = Tr.grab_position
            /\ current_output' # current_output =>
                   Select(emitted', "focus-output") =
                       << drag_focus_output_signal(current_output,
                                                   current_output') >>
            /\ current_output' = current_output =>
                   Count(emitted', "focus-output") = 0]_vars

\* A held view has just been taken to the other output: the focus followed
\* the pointer, the view's grab_position did not.
C25_Witness ==
    /\ session.active
    /\ view_held_in_place
    /\ session.motions >= 1
    /\ ~session.on_start_output
    /\ current_output = get_output_coords_at(session.last_input)
    /\ current_output # get_output_coords_at(session.start_position)
    /\ Tr.grab_position = session.start_position
    /\ Count(emitted, "focus-output") = 1
    /\ Count(emitted, "snap-off") = 0


\* The "done" record adjust_view_on_output is given.
DoneRecord == emitted[1]

\* (grab_position - focused output layout origin)
\*     - floor(relative_grab * bounding box size)
DropOrigin(ev, w) ==
    [x |-> (ev.grab_position.x - layout_geometry[ev.focused_output].x)
               - FloorMul(ev.relative_grab.x, untransformed_bbox(w).width),
     y |-> (ev.grab_position.y - layout_geometry[ev.focused_output].y)
               - FloorMul(ev.relative_grab.y, untransformed_bbox(w).height)]

Ops(cs) == [i \in 1..Len(cs) |-> cs[i].op]

\* The calls a "focus-output" callback can make, made in the last operation
\* by the move plugin instance on output o.
FocusCallsBy(o) ==
    SelectSeq(calls, LAMBDA c : /\ c.output = o
                                /\ c.op \in {"set_scale", "activate_plugin",
                                             "grab"})

\* "focus-output" was emitted in the step, for output o.
FocusEmittedFor(o) ==
    \E i \in 1..Len(emitted') :
        /\ emitted'[i].name = "focus-output"
        /\ emitted'[i].focus_output = o

\* C26: when a motion emits "focus-output" for output O and the instance on
\* O can handle the drag, that instance holds the grab afterwards, having
\* activated and grabbed once if it was not active and not at all if it
\* was, and has called set_scale(1.0), after which the scale runs to 1; the
\* instances on other outputs make none of these calls and keep their state.
C26_InputHandOff ==
    [][\A to \in FramePoints, o \in Outputs :
        (PluginMotionTo(to) /\ ~crashed' /\ FocusEmittedFor(o)
         /\ can_handle_drag(o, PluginEnv)) =>
            /\ plugin'[o].active
            /\ Ops(FocusCallsBy(o)') =
                   << "set_scale" >>
                   \o (IF plugin[o].active
                       THEN << >>
                       ELSE << "activate_plugin", "grab" >>)
            /\ Tr'.scale_factor.end = 1
            /\ \A p \in Outputs \ {o} :
                /\ plugin'[p] = plugin[p]
                /\ FocusCallsBy(p)' = << >>]_vars

\* The drag has just come to output B, whose instance was not active: it
\* has set the scale, activated and grabbed, and the instance on A made no
\* call.
C26_Witness ==
    /\ view # NULL
    /\ current_output = "B"
    /\ plugin["A"].active
    /\ plugin["B"].active
    /\ Ops(FocusCallsBy("B")) = << "set_scale", "activate_plugin", "grab" >>
    /\ FocusCallsBy("A") = << >>


\* The calls of deactivate() made in the last operation by the move plugin
\* instance on output o.
DeactivateCallsBy(o) ==
    SelectSeq(calls, LAMBDA c : /\ c.output = o
                                /\ c.op \in {"ungrab", "deactivate_plugin"})

\* C27: on "done" every move plugin instance ungrabs and deactivates, on the
\* focused output or not, so that none holds a grab afterwards, and
\* adjust_view_on_output is called at most once: by the instance on the
\* record's focused_output, if there is one and it can handle the drag.
C27_CompletionHandling ==
    [][(PluginRelease /\ ~crashed') =>
        LET ev == emitted'[1]
            adjusts == CallsOf("adjust_view_on_output")'
        IN  /\ Len(emitted') = 1
            /\ ev.name = "done"
            /\ \A o \in Outputs :
                /\ ~plugin'[o].active
                /\ Ops(DeactivateCallsBy(o)') = << "ungrab", "deactivate_plugin" >>
            /\ Len(adjusts) <= 1
            /\ \A i \in 1..Len(adjusts) :
                /\ adjusts[i].output = ev.focused_output
                /\ adjusts[i].view = ev.view
            /\ Len(adjusts) = 1 <=>
                   /\ ev.focused_output # NULL
                   /\ can_handle_drag(ev.focused_output, PluginEnv)]_vars

\* View v1, taken from output A, has just been dropped on output B: the
\* instance on B adjusted it and both instances deactivated.
C27_Witness ==
    /\ Count(emitted, "done") = 1
    /\ emitted[1].view = "v1"
    /\ emitted[1].focused_output = "B"
    /\ wm["v1"].output = "B"
    /\ Len(CallsOf("adjust_view_on_output")) = 1
    /\ CallsOf("adjust_view_on_output")[1].output = "B"
    /\ Len(DeactivateCallsBy("A")) = 2
    /\ Len(DeactivateCallsBy("B")) = 2
    /\ \A o \in Outputs : ~plugin[o].active


\* The calls of tile_request(0) on view v in the last operation.
UntileCalls(v) ==
    SelectSeq(calls, LAMBDA c : /\ c.op = "tile_request"
                                /\ c.view = v
                                /\ ~c.flag)

\* C28: in a session the move plugin started with snap-off on a tiled view
\* that is not fullscreen, the motion that emits "snap-off" makes exactly one
\* call of tile_request(0) on the dragged view, also when it is the first
\* motion of the session; a fullscreen view gets none.
C28_SnapOffUntiles ==
    [][\A to \in FramePoints :
        (PluginMotionTo(to) /\ ~crashed' /\ Count(emitted', "snap-off") = 1) =>
            /\ (wm[view].tiled_edges /\ ~wm[view].fullscreen) =>
                   /\ Len(UntileCalls(view)') = 1
                   /\ ~wm'[view].tiled_edges
            /\ wm[view].fullscreen => UntileCalls(view)' = << >>]_vars

\* C28 without the first motion of a session and for a focused output that
\* is not inhibited.
C28_SnapOffUntilesLater ==
    [][\A to \in FramePoints :
        (PluginMotionTo(to) /\ ~crashed' /\ Count(emitted', "snap-off") = 1) =>
            /\ (/\ wm[view].tiled_edges
                /\ ~wm[view].fullscreen
                /\ current_output # NULL
                /\ can_handle_drag(current_output, PluginEnv)) =>
                   /\ Len(UntileCalls(view)') = 1
                   /\ Len(CallsOf("adjust_view_on_snap_off")') = 1
                   /\ CallsOf("adjust_view_on_snap_off")'[1].output = current_output
                   /\ ~wm'[view].tiled_edges
            /\ wm[view].fullscreen => UntileCalls(view)' = << >>]_vars

\* The first motion of a session crossed the threshold: "snap-off" has been
\* emitted and the tiled view is still tiled.
C28_FirstMotionKeepsTiled ==
    /\ view # NULL
    /\ session.motions = 1
    /\ session.snap_offs = 1
    /\ Count(emitted, "snap-off") = 1
    /\ wm[view].tiled_edges
    /\ ~wm[view].fullscreen
    /\ UntileCalls(view) = << >>


\* The calls a "snap-off" callback makes, and those a "focus-output"
\* callback makes.
SnapOffOps == {"adjust_view_on_snap_off", "tile_request"}

FocusOps == {"set_scale", "activate_plugin", "grab"}

\* C30: a handle_motion that crosses the snap-off threshold and comes onto
\* another output emits "snap-off" first and "focus-output" second and
\* nothing else; every call of a "snap-off" callback is made before the
\* first call of a "focus-output" callback, and the instance on the new
\* output has handled "focus-output" when handle_motion returns.
C30_NotificationOrder ==
    [][\A to \in FramePoints :
        (/\ PluginMotionTo(to)
         /\ ~crashed'
         /\ snap_off_reached(to)
         /\ get_output_coords_at(to) # current_output) =>
            /\ Len(emitted') = 2
            /\ emitted'[1].name = "snap-off"
            /\ emitted'[2].name = "focus-output"
            /\ emitted'[2].focus_output = get_output_coords_at(to)
            /\ \A i \in 1..Len(calls'), j \in 1..Len(calls') :
                   (calls'[i].op \in SnapOffOps /\ calls'[j].op \in FocusOps)
                       => i < j
            /\ (/\ get_output_coords_at(to) # NULL
                /\ can_handle_drag(get_output_coords_at(to), PluginEnv)) =>
                   /\ Len(CallsOf("set_scale")') = 1
                   /\ plugin'[get_output_coords_at(to)].active]_vars

\* One motion took a tiled view off its hold and onto output B: the
\* instance on A untiled it, then the instance on B set the scale and
\* grabbed.
C30_Witness ==
    /\ view # NULL
    /\ Len(emitted) = 2
    /\ emitted[1].name = "snap-off"
    /\ emitted[2].name = "focus-output"
    /\ emitted[1].focus_output = "A"
    /\ emitted[2].focus_output = "B"
    /\ Ops(calls) = << "adjust_view_on_snap_off", "tile_request", "set_scale",
                       "activate_plugin", "grab" >>


\* C34: view_held_in_place is set only while a session is active that was
\* started with enable_snap_off and has emitted no "snap-off" yet; so a
\* session started without enable_snap_off is never held in place, whatever
\* session went before it.
C34_HeldImpliesPendingSnapOff ==
    /\ view_held_in_place =>
           /\ view # NULL
           /\ session.active
           /\ params.enable_snap_off
           /\ session.snap_offs = 0
    /\ (view # NULL /\ ~params.enable_snap_off) => ~view_held_in_place

\* A session without snap-off runs, after one with snap-off was released:
\* its view follows the input from the first motion on.
C34_Witness ==
    /\ view # NULL
    /\ ~params.enable_snap_off
    /\ ~view_held_in_place
    /\ grab_origin # session.start_position
    /\ grab_origin # [x |-> 0, y |-> 0]
    /\ session.motions >= 1
    /\ Tr.grab_position = session.last_input


\* The bounding box of the dragged view before the drag, in layout
\* coordinates.
PreDragBox ==
    BoxMove(untransformed_bbox(wm[view]),
            origin(layout_geometry[wm[view].output]))

\* C33: after start_drag with the relative grab derived and the scale at 1,
\* the bounding box the transformer gives the view is the view's bounding
\* box from before the drag, translated by the layout origin of its output.
C33_NoJumpAtStart ==
    (view # NULL /\ session.motions = 0 /\ Tr.scale_factor.value = 1) =>
        view_bounding_box(view) = PreDragBox

\* C33 for bounding boxes less than 22 wide.
C33_NoJumpAtStartNarrow ==
    (/\ view # NULL
     /\ session.motions = 0
     /\ Tr.scale_factor.value = 1
     /\ untransformed_bbox(wm[view]).width < 22) =>
        view_bounding_box(view) = PreDragBox

\* A drag has begun on a bounding box 22 wide, grabbed 15 from its left
\* edge: the box the transformer gives is one to the right of where the
\* view was.
C33_JumpAtStart ==
    /\ view # NULL
    /\ session.motions = 0
    /\ Tr.scale_factor.value = 1
    /\ PreDragBox.width = 22
    /\ session.start_position.x - PreDragBox.x = 15
    /\ view_bounding_box(view).x = PreDragBox.x + 1


\* C32: whenever a drag is running and no call into the core is, the core
\* is connected to the "unmapped" signal of the dragged view, also when the
\* drag was started from inside the "done" callbacks of the drag before.
C32_UnmapSubscribed ==
    (view # NULL /\ session.pc = 0) => view \in on_view_unmap

\* C32 for drags not started from inside a "done" callback: the same
\* statement where no call into the core is entered during another.
C32_UnmapSubscribedPlain ==
    view # NULL => view \in on_view_unmap

\* A drag started from inside "done" runs with the core connected to no
\* view; its view has been unmapped and is still being dragged.
C32_UnmappedStillDragged ==
    /\ view # NULL
    /\ session.pc = 0
    /\ on_view_unmap = {}
    /\ ~view_mapped[view]
    /\ ~view_visible[view]
    /\ view_transformers[view] # << >>


\* C31: whatever outputs were plugged in or out since start_drag, a
\* handle_input_released finds an output_data_t on every output of the
\* layout and returns with no output_data_t left on any output.
C31_HotPlugRelease ==
    [][HandleInputReleased =>
        /\ \A o \in output_layout : output_data[o] # << >>
        /\ ~crashed'
        /\ \A o \in Outputs : output_data'[o] = << >>]_vars

\* C31 for drags during which no output was plugged in.
C31_UnplugRelease ==
    [][(HandleInputReleased /\ \A o \in output_layout : output_data[o] # << >>) =>
        /\ ~crashed'
        /\ \A o \in Outputs : output_data'[o] = << >>]_vars

\* Output B was plugged in during a drag and the release, finding no
\* output_data_t on it, ended the process.
C31_ReleaseAfterPlugIn ==
    /\ crashed
    /\ view # NULL
    /\ output_layout = Outputs
    /\ inotify = NoBackend
    /\ output_data["A"] # << >>
    /\ output_data["B"] = << >>


(* ---------------------- config hot-reload (C35) ----------------------- *)

\* The number of times the last run of the handler made the call.
TimesCalled(st, op) ==
    Cardinality({i \in 1..Len(st.trace) : st.trace[i] = op})

\* The batch holds a write to the config file, or the creation of a file
\* with the config file's name in the directory of the config file.
ConfigFileTouched(st) ==
    \E i \in 1..Len(st.batch) :
        /\ st.batch[i].path = st.config_file
        /\ st.batch[i].mask \in {"IN_MODIFY", "IN_CREATE"}

\* The run reloaded the configuration and emitted reload-config, once each.
ReloadedOnce(st) ==
    /\ TimesCalled(st, "load_configuration_options_from_file") = 1
    /\ TimesCalled(st, "emit_signal reload-config") = 1

\* C35: when handle_config_updated returns, it has put the watches back,
\* and if the events it read hold a write to the config file or the
\* creation of a file with the config file's name in its directory, it
\* has reloaded the configuration and emitted reload-config exactly once.
C35_ReloadPerBatch ==
    [][HandleConfigUpdatedEnd =>
        /\ TimesCalled(inotify', "readd_watch") = 1
        /\ ConfigFileTouched(inotify') => ReloadedOnce(inotify')]_vars

\* C35, for what the code does: the watches are put back by every run, and
\* a run reloads and emits reload-config, once each, exactly when one of
\* its reads returned a buffer that starts with an event without a name.
C35_ReloadOnLeadingEvent ==
    [][HandleConfigUpdatedEnd =>
        /\ TimesCalled(inotify', "readd_watch") = 1
        /\ IF inotify.should_reload THEN ReloadedOnce(inotify')
           ELSE inotify'.trace = << "readd_watch" >>]_vars

\* C35: the name of a created file never makes the handler reload, as
\* config_file is a path and the name in the event is not.
C35_NameNeverMatches ==
    [][\A i \in 1..Len(inotify.queue) :
          inotify.queue[i].name # inotify.config_file]_vars

\* C35: a run of the handler that read the creation of the config file in
\* the watched directory has returned without reloading.
C35_CreatedNotReloaded ==
    /\ inotify.pc = "idle"
    /\ \E i \in 1..Len(inotify.batch) :
          /\ inotify.batch[i].mask = "IN_CREATE"
          /\ inotify.batch[i].path = inotify.config_file
    /\ inotify.trace = << "readd_watch" >>

\* C35: a run of the handler that read a write to the config file behind
\* the creation of another file has returned without reloading.
C35_ModifiedNotReloaded ==
    /\ inotify.pc = "idle"
    /\ \E i \in 1..Len(inotify.batch) : inotify.batch[i].mask = "IN_MODIFY"
    /\ inotify.trace = << "readd_watch" >>

\* C35: the handler waits in read with nothing queued and a reload due.
C35_WaitingInRead ==
    /\ inotify.pc = "read"
    /\ inotify.queue = << >>
    /\ inotify.should_reload

====
